---- MODULE Spec2Model ----
(***************************************************************************)
(* Model of the Magtogoek ADCP processing code:                            *)
(*   magtogoek/adcp/quality_control.py  (quality control engine)           *)
(*   magtogoek/utils.py                 (Logger)                           *)
(* A dataset is a pair of finite maps: variable name -> array and          *)
(* attribute name -> value.  A 2-D array is a function over Cells          *)
(* (depth index, time index), a 1-D array a function over Times.           *)
(* Numbers are integers; not-a-number is the value NaN.  An operation of   *)
(* the program is one action; the exception that ended it (if any) is      *)
(* kept in exc, together with whatever it changed before raising.          *)
(***************************************************************************)
EXTENDS Integers, Sequences, FiniteSets, TLC

VARIABLES
    dataset_vars,   \* xarray Dataset: variable name -> array
    dataset_attrs,  \* Dataset.attrs: attribute name -> value
    var_attrs,      \* per-variable attrs: variable name -> quality_test list
    l,              \* module-level Logger of quality_control.py
    pc,             \* "ready" before the call, "done" after it
    op,             \* the operation that ran
    args,           \* the arguments of the call
    exc,            \* exception that ended the call ("None" when it returned)
    locals          \* local variables of adcp_quality_control at its end

vars == <<dataset_vars, dataset_attrs, var_attrs, l, pc, op, args, exc, locals>>

----------------------------------------------------------------------------
(* Bounds of the model. *)
NDepth == 2         \* number of depth bins
NTime == 2          \* number of time samples

Depths == 1..NDepth
Times == 1..NTime
Cells == Depths \X Times

(* Program constants. *)
IMPLAUSIBLE_VEL_TRESHOLD == 15
MIN_TEMPERATURE == -2
MAX_TEMPERATURE == 32
MIN_PRESSURE == 0
MAX_PRESSURE == 10000

(* np.nan: a value outside every range the model draws numbers from. *)
NaN == 1000000000

isfinite(x) == x # NaN

(* IEEE comparisons: every comparison with NaN is False. *)
lt(x, y) == isfinite(x) /\ isfinite(y) /\ x < y
gt(x, y) == isfinite(x) /\ isfinite(y) /\ x > y

(* IEEE arithmetic: NaN propagates. *)
add(x, y) == IF isfinite(x) /\ isfinite(y) THEN x + y ELSE NaN
sub(x, y) == IF isfinite(x) /\ isfinite(y) THEN x - y ELSE NaN
abs(x) == IF ~isfinite(x) THEN NaN ELSE IF x < 0 THEN -x ELSE x

(* Python dict: d[k] = v *)
setitem(d, k, v) == (k :> v) @@ d

----------------------------------------------------------------------------
(* utils.Logger *)
Logger_init(level) == [logbook |-> <<>>, w_count |-> 0, level |-> level]

Logger_section(lg, section) ==
    [lg EXCEPT !.logbook = Append(@, "[" \o section \o "]")]

Logger_log(lg, msg) ==
    [lg EXCEPT !.logbook = Append(@, msg)]

Logger_warning(lg, msg) ==
    [lg EXCEPT !.w_count = IF lg.level < 2 THEN @ + 1 ELSE @,
               !.logbook = Append(@, msg)]

Logger_reset(lg) ==
    [lg EXCEPT !.logbook = <<>>, !.w_count = 0]

----------------------------------------------------------------------------
(* Arrays *)
full2d(x) == [c \in Cells |-> x]
full1d(x) == [t \in Times |-> x]

(* np.tile(a, depth.shape + (1,)): a per-time array repeated at every depth *)
tile(a) == [c \in Cells |-> a[c[2]]]

(* dataset.depth.data: the depth coordinate of each bin, in meters *)
depth == [d \in Depths |-> 45 * d]

(* np.cos(np.radians(beam_angle)), times 10^4, for the beam angles of RDI ADCPs *)
cos_angle_e4(beam_angle) ==
    CASE beam_angle = 20 -> 9397
      [] beam_angle = 25 -> 9063
      [] beam_angle = 30 -> 8660
      [] OTHER -> 10000

(* What a function call gives back: its return value, the exception it
   raised ("None" when it returned) and the logger as it left it. *)
Return(ret, lg) == [ret |-> ret, exc |-> "None", l |-> lg]
Raise(e, lg) == [ret |-> full2d(FALSE), exc |-> e, l |-> lg]

----------------------------------------------------------------------------
(* The tests of quality_control.py: True where the sample fails. *)

correlation_test(dv, lg, threshold) ==
    IF {"corr1", "corr2", "corr3", "corr4"} \subseteq DOMAIN dv
    THEN Return([c \in Cells |->
                    /\ lt(dv["corr1"][c], threshold)
                    /\ lt(dv["corr2"][c], threshold)
                    /\ lt(dv["corr3"][c], threshold)
                    /\ lt(dv["corr4"][c], threshold)], lg)
    ELSE Raise("AttributeError", lg)   \* l.warnings: Logger has no such method

(* Variant: a cell fails when any beam is below the threshold *)
amplitude_test_any_beam(dv, lg, threshold) ==
    IF {"amp1", "amp2", "amp3", "amp4"} \subseteq DOMAIN dv
    THEN Return([c \in Cells |->
                    \/ lt(dv["amp1"][c], threshold)
                    \/ lt(dv["amp2"][c], threshold)
                    \/ lt(dv["amp3"][c], threshold)
                    \/ lt(dv["amp4"][c], threshold)], lg)
    ELSE Raise("AttributeError", lg)

amplitude_test(dv, lg, threshold) ==
    IF {"amp1", "amp2", "amp3", "amp4"} \subseteq DOMAIN dv
    THEN Return([c \in Cells |->
                    /\ lt(dv["amp1"][c], threshold)
                    /\ lt(dv["amp2"][c], threshold)
                    /\ lt(dv["amp3"][c], threshold)
                    /\ lt(dv["amp4"][c], threshold)], lg)
    ELSE Raise("AttributeError", lg)   \* l.warnings: Logger has no such method

percentgood_test(dv, lg, threshold) ==
    IF "pg" \in DOMAIN dv
    THEN Return([c \in Cells |-> lt(dv["pg"][c], threshold)], lg)
    ELSE Raise("AttributeError", lg)   \* l.warnings: Logger has no such method

(* scipy.stats.circmean and magtogoek.tools.circular_distance: the angular
   distance of every sample from the circular mean of the series.  The
   model's attitude arrays hold that distance. *)
circular_distance_from_mean(a) == a

roll_test(dv, lg, thres) ==
    IF "roll_" \in DOMAIN dv
    THEN Return([t \in Times |->
                    gt(circular_distance_from_mean(dv["roll_"])[t], thres)], lg)
    ELSE Raise("AttributeError", lg)   \* l.warnings: Logger has no such method

pitch_test(dv, lg, thres) ==
    IF "pitch" \in DOMAIN dv
    THEN Return([t \in Times |->
                    gt(circular_distance_from_mean(dv["pitch"])[t], thres)], lg)
    ELSE Raise("AttributeError", lg)   \* l.warnings: Logger has no such method

(* np.greater(x, thres, where=np.isfinite(x)) with no out array: where the
   value is not finite the result is uninitialized memory; garbage is what
   that memory holds. *)
horizontal_vel_test(dv, thres, garbage) ==
    [c \in Cells |->
        IF isfinite(dv["u"][c]) /\ isfinite(dv["v"][c])
        THEN dv["u"][c] * dv["u"][c] + dv["v"][c] * dv["v"][c] > thres * thres
        ELSE garbage[c]]

vertical_vel_test(dv, thres, garbage) ==
    [c \in Cells |->
        IF isfinite(dv["w"][c]) THEN gt(abs(dv["w"][c]), thres) ELSE garbage[c]]

error_vel_test(dv, thres, garbage) ==
    IF "e" \in DOMAIN dv
    THEN [ret |-> [c \in Cells |->
                     IF isfinite(dv["w"][c]) THEN gt(abs(dv["e"][c]), thres)
                     ELSE garbage[c]],
          exc |-> "None"]
    ELSE [ret |-> full2d(FALSE), exc |-> "AttributeError"]   \* dataset.e

vertical_beam_test(dv, amp_thres, corr_thres, pg_thres) ==
    [c \in Cells |->
        \/ "vb_amp" \in DOMAIN dv /\ amp_thres # 0 /\ lt(dv["vb_amp"][c], amp_thres)
        \/ "vb_corr" \in DOMAIN dv /\ corr_thres # 0 /\ lt(dv["vb_corr"][c], corr_thres)
        \/ "vb_pg" \in DOMAIN dv /\ pg_thres # 0 /\ lt(dv["vb_pg"][c], pg_thres)]

temperature_test(dv) ==
    [t \in Times |-> \/ gt(dv["temperature"][t], MAX_TEMPERATURE)
                     \/ lt(dv["temperature"][t], MIN_TEMPERATURE)]

(* Variant: only the upper bound is tested *)
pressure_test_upper_only(dv) ==
    [t \in Times |-> gt(dv["pres"][t], MAX_PRESSURE)]

pressure_test(dv) ==
    [t \in Times |-> \/ gt(dv["pres"][t], MAX_PRESSURE)
                     \/ lt(dv["pres"][t], MIN_PRESSURE)]

(* Variant: the xducer_depth variable is used whenever the dataset has one *)
sidelobe_test_variable_first(dv, da, lg, bottom_depth) ==
    IF ~({"beam_angle", "orientation"} \subseteq DOMAIN da)
    THEN [kind |-> "None", ret |-> full2d(FALSE), exc |-> "KeyError", l |-> lg]
    ELSE IF da["beam_angle"] = 0 \/ da["orientation"] = ""
    THEN [kind |-> "None", ret |-> full2d(FALSE), exc |-> "None", l |-> lg]
    ELSE
      LET cos_angle == cos_angle_e4(da["beam_angle"])
          has_xducer == "xducer_depth" \in DOMAIN dv \/ "xducer_depth" \in DOMAIN da
          xducer_depth ==
              IF "xducer_depth" \in DOMAIN dv
              THEN dv["xducer_depth"]
              ELSE full1d(da["xducer_depth"])
          has_bottom == bottom_depth # 0 \/ "bt_depth" \in DOMAIN dv
          bottom == IF bottom_depth # 0 THEN full1d(bottom_depth)
                    ELSE dv["bt_depth"]
          \* max_depth = xducer_depth + (bottom_depth - xducer_depth) * cos_angle
          below_max(c) ==
              /\ isfinite(xducer_depth[c[2]]) /\ isfinite(bottom[c[2]])
              /\ depth[c[1]] * 10000 >
                   xducer_depth[c[2]] * 10000
                   + (bottom[c[2]] - xducer_depth[c[2]]) * cos_angle
          \* min_depth = xducer_depth * (1 - cos_angle)
          above_min(c) ==
              /\ isfinite(xducer_depth[c[2]])
              /\ depth[c[1]] * 10000 < xducer_depth[c[2]] * (10000 - cos_angle)
      IN  IF ~has_xducer
          THEN [kind |-> "False", ret |-> full2d(FALSE), exc |-> "None",
                l |-> Logger_warning(lg,
                  "Sidelobes correction aborded. Adcp depth xducer_depth not provided.")]
          ELSE IF da["orientation"] = "down"
          THEN IF ~has_bottom
               THEN [kind |-> "False", ret |-> full2d(FALSE), exc |-> "None",
                     l |-> Logger_warning(lg,
                       "Sidelobes correction aborded. Bottom depth not found or provided.")]
               ELSE [kind |-> "array", ret |-> [c \in Cells |-> below_max(c)],
                     exc |-> "None", l |-> lg]
          ELSE IF da["orientation"] = "up"
          THEN [kind |-> "array", ret |-> [c \in Cells |-> above_min(c)],
                exc |-> "None", l |-> lg]
          ELSE [kind |-> "False", ret |-> full2d(FALSE), exc |-> "None",
                l |-> Logger_warning(lg,
                  "Can not correct for sidelobes, adcp_orientation parameter not set.")]

(* sidelobe_test gives back a boolean array (kind "array"), False when it
   aborts (kind "False"), or nothing when the beam angle or the orientation
   is falsy (kind "None"). *)
sidelobe_test(dv, da, lg, bottom_depth) ==
    IF ~({"beam_angle", "orientation"} \subseteq DOMAIN da)
    THEN [kind |-> "None", ret |-> full2d(FALSE), exc |-> "KeyError", l |-> lg]
    ELSE IF da["beam_angle"] = 0 \/ da["orientation"] = ""
    THEN [kind |-> "None", ret |-> full2d(FALSE), exc |-> "None", l |-> lg]
    ELSE
      LET cos_angle == cos_angle_e4(da["beam_angle"])
          has_xducer == "xducer_depth" \in DOMAIN dv \/ "xducer_depth" \in DOMAIN da
          xducer_depth ==
              IF "xducer_depth" \in DOMAIN dv /\ "xducer_depth" \notin DOMAIN da
              THEN dv["xducer_depth"]
              ELSE full1d(da["xducer_depth"])
          has_bottom == bottom_depth # 0 \/ "bt_depth" \in DOMAIN dv
          bottom == IF bottom_depth # 0 THEN full1d(bottom_depth)
                    ELSE dv["bt_depth"]
          \* max_depth = xducer_depth + (bottom_depth - xducer_depth) * cos_angle
          below_max(c) ==
              /\ isfinite(xducer_depth[c[2]]) /\ isfinite(bottom[c[2]])
              /\ depth[c[1]] * 10000 >
                   xducer_depth[c[2]] * 10000
                   + (bottom[c[2]] - xducer_depth[c[2]]) * cos_angle
          \* min_depth = xducer_depth * (1 - cos_angle)
          above_min(c) ==
              /\ isfinite(xducer_depth[c[2]])
              /\ depth[c[1]] * 10000 < xducer_depth[c[2]] * (10000 - cos_angle)
      IN  IF ~has_xducer
          THEN [kind |-> "False", ret |-> full2d(FALSE), exc |-> "None",
                l |-> Logger_warning(lg,
                  "Sidelobes correction aborded. Adcp depth xducer_depth not provided.")]
          ELSE IF da["orientation"] = "down"
          THEN IF ~has_bottom
               THEN [kind |-> "False", ret |-> full2d(FALSE), exc |-> "None",
                     l |-> Logger_warning(lg,
                       "Sidelobes correction aborded. Bottom depth not found or provided.")]
               ELSE [kind |-> "array", ret |-> [c \in Cells |-> below_max(c)],
                     exc |-> "None", l |-> lg]
          ELSE IF da["orientation"] = "up"
          THEN [kind |-> "array", ret |-> [c \in Cells |-> above_min(c)],
                exc |-> "None", l |-> lg]
          ELSE [kind |-> "False", ret |-> full2d(FALSE), exc |-> "None",
                l |-> Logger_warning(lg,
                  "Can not correct for sidelobes, adcp_orientation parameter not set.")]

----------------------------------------------------------------------------
(* A frame is the part of the program state a function works on:
   [vars, attrs, vattrs, l, exc]. *)

(* DataArray.where(cond): the value where cond holds, NaN elsewhere *)
where(a, cond) == [c \in DOMAIN a |-> IF cond[c] THEN a[c] ELSE NaN]

(* Variant: each variable masked by its own test only *)
implausible_iteration_per_variable(dv, v, thres) ==
    LET plausible == [c \in Cells |-> gt(dv[v][c], -thres) /\ lt(dv[v][c], thres)]
    IN  [dv EXCEPT ![v] = where(@, plausible)]

(* Variant: the bounds -thres and thres count as plausible *)
implausible_iteration_inclusive(dv, v, thres) ==
    LET plausible == [c \in Cells |-> ~lt(dv[v][c], -thres) /\ ~gt(dv[v][c], thres)
                                      /\ isfinite(dv[v][c])]
    IN  [dv EXCEPT !["u"] = where(@, plausible),
                   !["v"] = where(@, plausible),
                   !["w"] = where(@, plausible)]

(* One iteration of the loop of set_implausible_vel_to_nan, for variable v *)
implausible_iteration(dv, v, thres) ==
    LET plausible == [c \in Cells |-> gt(dv[v][c], -thres) /\ lt(dv[v][c], thres)]
    IN  [dv EXCEPT !["u"] = where(@, plausible),
                   !["v"] = where(@, plausible),
                   !["w"] = where(@, plausible)]

set_implausible_vel_to_nan(dv, thres) ==
    implausible_iteration(
        implausible_iteration(
            implausible_iteration(dv, "u", thres), "v", thres), "w", thres)

(* Variant: corrects with whichever bottom-track components are there *)
motion_correction_bt_any(f) ==
    LET bt(field, a) == IF "bt_" \o field \in DOMAIN f.vars
                        THEN [c \in Cells |-> sub(a[c], f.vars["bt_" \o field][c[2]])]
                        ELSE a
    IN  IF {"bt_u", "bt_v", "bt_w"} \cap DOMAIN f.vars # {}
        THEN [f EXCEPT
                !.vars = [@ EXCEPT !["u"] = bt("u", @), !["v"] = bt("v", @),
                                   !["w"] = bt("w", @)],
                !.l = Logger_log(@, "Motion correction carried out with bottom track")]
        ELSE [f EXCEPT !.l = Logger_warning(@,
                "Motion correction aborded. Bottom velocity (bt_u, bt_v, bt_w) missing")]

motion_correction_bt(f) ==
    IF {"bt_u", "bt_v", "bt_w"} \subseteq DOMAIN f.vars
    THEN [f EXCEPT
            !.vars = [@ EXCEPT
                !["u"] = [c \in Cells |-> sub(@[c], f.vars["bt_u"][c[2]])],
                !["v"] = [c \in Cells |-> sub(@[c], f.vars["bt_v"][c[2]])],
                !["w"] = [c \in Cells |-> sub(@[c], f.vars["bt_w"][c[2]])]],
            !.l = Logger_log(@, "Motion correction carried out with bottom track")]
    ELSE [f EXCEPT !.l = Logger_warning(@,
            "Motion correction aborded. Bottom velocity (bt_u, bt_v, bt_w) missing")]

(* The loop over u, v stops in its first iteration: after u is corrected,
   dataset["uship"] is looked up. *)
motion_correction_nav(f) ==
    IF {"u_ship", "v_ship"} \subseteq DOMAIN f.vars
    THEN IF "lon" \notin DOMAIN f.vars
         THEN [f EXCEPT !.exc = "AttributeError"]    \* dataset.lon
         ELSE LET ship == [t \in Times |->
                            IF isfinite(f.vars["lon"][t]) THEN f.vars["u_ship"][t]
                            ELSE 0]
              IN  [f EXCEPT
                     !.vars = [@ EXCEPT !["u"] = [c \in Cells |-> add(@[c], ship[c[2]])]],
                     !.exc = IF "uship" \in DOMAIN f.vars
                             THEN "ValueError"    \* .values of another shape
                             ELSE "KeyError"]     \* dataset["uship"]
    ELSE [f EXCEPT !.l = Logger_warning(@,
            "Motion correction aborded. Navigation velocity (u_ship, v_ship) missing")]

motion_correction(f, mode) ==
    IF mode = "bt" THEN motion_correction_bt(f)
    ELSE IF mode = "nav" THEN motion_correction_nav(f)
    ELSE [f EXCEPT !.l = Logger_warning(@,
            "Motion correction aborded. Motion correction mode invalid. ('bt' or 'nav')")]

----------------------------------------------------------------------------
(* adcp_quality_control, block by block.  f is the frame, a the arguments;
   f.loc holds the local variables.  A block does nothing once an exception
   has been raised.  A threshold of 0 stands for every falsy value (0, None). *)

FLAG_REFERENCE == "BODC SeaDataNet"

(* vel_flags[mask] = value *)
set_flags(vel_flags, mask, value) ==
    [c \in DOMAIN vel_flags |-> IF mask[c] THEN value ELSE vel_flags[c]]

qc_start(f, a) ==
    LET f0 == [f EXCEPT !.l = Logger_section(Logger_reset(@), "Quality Control")]
        f1 == IF a.motion_correction_mode # ""
              THEN motion_correction(f0, a.motion_correction_mode)
              ELSE f0
    IN  IF f1.exc # "None" THEN f1
        ELSE [f1 EXCEPT
                !.vars = set_implausible_vel_to_nan(@, IMPLAUSIBLE_VEL_TRESHOLD),
                !.loc.vel_flags = full2d(1),
                !.loc.vel_qc_test = <<>>]

(* Variant: the amplitude test runs whatever its threshold *)
qc_amplitude_unconditional(f, a) ==
    IF f.exc # "None" THEN f
    ELSE LET r == amplitude_test(f.vars,
                    Logger_log(f.l, "amplitude threshold " \o ToString(a.amp_th)),
                    a.amp_th)
         IN  IF r.exc # "None" THEN [f EXCEPT !.l = r.l, !.exc = r.exc]
             ELSE [f EXCEPT !.l = r.l,
                            !.loc.amp_flag = r.ret,
                            !.loc.vel_flags = set_flags(@, r.ret, 3),
                            !.loc.vel_qc_test =
                                Append(@, "amplitude_threshold:" \o ToString(a.amp_th))]

qc_amplitude(f, a) ==
    IF f.exc # "None" \/ a.amp_th = 0 THEN f
    ELSE LET r == amplitude_test(f.vars,
                    Logger_log(f.l, "amplitude threshold " \o ToString(a.amp_th)),
                    a.amp_th)
         IN  IF r.exc # "None" THEN [f EXCEPT !.l = r.l, !.exc = r.exc]
             ELSE [f EXCEPT !.l = r.l,
                            !.loc.amp_flag = r.ret,
                            !.loc.vel_flags = set_flags(@, r.ret, 3),
                            !.loc.vel_qc_test =
                                Append(@, "amplitude_threshold:" \o ToString(a.amp_th))]

qc_correlation(f, a) ==
    IF f.exc # "None" \/ a.corr_th = 0 THEN f
    ELSE LET r == correlation_test(f.vars,
                    Logger_log(f.l, "correlation threshold " \o ToString(a.corr_th)),
                    a.corr_th)
         IN  IF r.exc # "None" THEN [f EXCEPT !.l = r.l, !.exc = r.exc]
             ELSE [f EXCEPT !.l = r.l,
                            !.loc.corr_flag = r.ret,
                            !.loc.vel_flags = set_flags(@, r.ret, 3),
                            !.loc.vel_qc_test =
                                Append(@, "correlation_threshold:" \o ToString(a.corr_th))]

qc_percentgood(f, a) ==
    IF f.exc # "None" \/ a.pg_th = 0 THEN f
    ELSE LET r == percentgood_test(f.vars,
                    Logger_log(f.l, "percentgood threshold " \o ToString(a.pg_th)),
                    a.pg_th)
         IN  IF r.exc # "None" THEN [f EXCEPT !.l = r.l, !.exc = r.exc]
             ELSE [f EXCEPT !.l = r.l,
                            !.loc.pg_flag = r.ret,
                            !.loc.vel_flags = set_flags(@, r.ret, 3),
                            !.loc.vel_qc_test =
                                Append(@, "percentgood_threshold:" \o ToString(a.pg_th))]

qc_horizontal_vel(f, a, garbage) ==
    IF f.exc # "None" \/ a.horizontal_vel_th = 0 THEN f
    ELSE LET ret == horizontal_vel_test(f.vars, a.horizontal_vel_th, garbage)
         IN  [f EXCEPT
                !.l = Logger_log(@, "horizontal velocity threshold "
                                    \o ToString(a.horizontal_vel_th) \o " m/s"),
                !.loc.horizontal_vel_flag = ret,
                !.loc.vel_flags = set_flags(@, ret, 3),
                !.loc.vel_qc_test =
                    Append(@, "horizontal_velocity_threshold:"
                              \o ToString(a.horizontal_vel_th) \o " m/s")]

qc_vertical_vel(f, a, garbage) ==
    IF f.exc # "None" \/ a.vertical_vel_th = 0 THEN f
    ELSE LET ret == vertical_vel_test(f.vars, a.vertical_vel_th, garbage)
         IN  [f EXCEPT
                !.l = Logger_log(@, "vertical velocity threshold "
                                    \o ToString(a.vertical_vel_th) \o " m/s"),
                !.loc.vertical_vel_flag = ret,
                !.loc.vel_flags = set_flags(@, ret, 3),
                !.loc.vel_qc_test =
                    Append(@, "vertical_velocity_threshold:"
                              \o ToString(a.vertical_vel_th) \o " m/s")]

qc_error_vel(f, a, garbage) ==
    IF f.exc # "None" \/ a.error_vel_th = 0 THEN f
    ELSE LET lg == Logger_log(f.l, "error velocity threshold "
                                   \o ToString(a.error_vel_th) \o " m/s")
             r == error_vel_test(f.vars, a.error_vel_th, garbage)
         IN  IF r.exc # "None" THEN [f EXCEPT !.l = lg, !.exc = r.exc]
             ELSE [f EXCEPT !.l = lg,
                            !.loc.error_vel_flag = r.ret,
                            !.loc.vel_flags = set_flags(@, r.ret, 3),
                            !.loc.vel_qc_test =
                                Append(@, "velocity_error_threshold:"
                                          \o ToString(a.error_vel_th) \o " m/s")]

(* Variant: the roll test is listed ahead of the tests before it *)
qc_roll_listed_first(f, a) ==
    IF f.exc # "None" \/ a.roll_th = 0 THEN f
    ELSE LET r == roll_test(f.vars,
                    Logger_log(f.l, "roll threshold " \o ToString(a.roll_th) \o " degree"),
                    a.roll_th)
         IN  IF r.exc # "None" THEN [f EXCEPT !.l = r.l, !.exc = r.exc]
             ELSE [f EXCEPT !.l = r.l,
                            !.loc.roll_flag = tile(r.ret),
                            !.loc.vel_flags = set_flags(@, tile(r.ret), 3),
                            !.loc.vel_qc_test =
                                <<"roll_threshold:" \o ToString(a.roll_th) \o " degree">>
                                \o @]

qc_roll(f, a) ==
    IF f.exc # "None" \/ a.roll_th = 0 THEN f
    ELSE LET r == roll_test(f.vars,
                    Logger_log(f.l, "roll threshold " \o ToString(a.roll_th) \o " degree"),
                    a.roll_th)
         IN  IF r.exc # "None" THEN [f EXCEPT !.l = r.l, !.exc = r.exc]
             ELSE [f EXCEPT !.l = r.l,
                            !.loc.roll_flag = tile(r.ret),
                            !.loc.vel_flags = set_flags(@, tile(r.ret), 3),
                            !.loc.vel_qc_test =
                                Append(@, "roll_threshold:" \o ToString(a.roll_th)
                                          \o " degree")]

qc_pitch(f, a) ==
    IF f.exc # "None" \/ a.pitch_th = 0 THEN f
    ELSE LET r == pitch_test(f.vars,
                    Logger_log(f.l, "pitch threshold " \o ToString(a.pitch_th) \o " degree"),
                    a.pitch_th)
         IN  IF r.exc # "None" THEN [f EXCEPT !.l = r.l, !.exc = r.exc]
             ELSE [f EXCEPT !.l = r.l,
                            !.loc.pitch_flag = tile(r.ret),
                            !.loc.vel_flags = set_flags(@, tile(r.ret), 3),
                            !.loc.vel_qc_test =
                                Append(@, "pitch_threshold:" \o ToString(a.pitch_th)
                                          \o " degree")]

(* `if sidelobe_flag:` -- bool() of what sidelobe_test gave back.  bool() of
   an array of more than one element raises ValueError. *)
array_truth(r) ==
    IF r.kind # "array" THEN [exc |-> "None", val |-> FALSE]
    ELSE IF Cardinality(Cells) > 1 THEN [exc |-> "ValueError", val |-> FALSE]
    ELSE [exc |-> "None", val |-> \E c \in Cells : r.ret[c]]

qc_sidelobes(f, a) ==
    IF f.exc # "None" \/ ~a.sidelobes_correction THEN f
    ELSE LET r == sidelobe_test(f.vars, f.attrs, f.l, a.bottom_depth)
             b == array_truth(r)
         IN  IF r.exc # "None" THEN [f EXCEPT !.l = r.l, !.exc = r.exc]
             ELSE IF b.exc # "None"
             THEN [f EXCEPT !.l = r.l, !.exc = b.exc, !.loc.sidelobe_flag = r.ret]
             ELSE IF ~b.val THEN [f EXCEPT !.l = r.l, !.loc.sidelobe_flag = r.ret]
             ELSE [f EXCEPT !.l = Logger_log(r.l, "Sidelobe correction carried out."),
                            !.loc.sidelobe_flag = r.ret,
                            !.loc.vel_flags = set_flags(@, r.ret, 4),
                            !.loc.vel_qc_test = Append(@, "sidelobes")]

pressure_quality_test ==
    "presssure_threshold: less than " \o ToString(MIN_PRESSURE)
    \o " dbar and greater than " \o ToString(MAX_PRESSURE) \o " dbar"

(* Variant: a pressure out of range marks only the cells still at 1 *)
qc_pressure_keeps_three(f, a) ==
    IF f.exc # "None" \/ "pres" \notin DOMAIN f.vars THEN f
    ELSE LET pressure_flags == pressure_test(f.vars)
             pressure_QC == set_flags(full1d(1), pressure_flags, 4)
             untouched == [c \in Cells |-> pressure_flags[c[2]] /\ f.loc.vel_flags[c] = 1]
         IN  [f EXCEPT
                !.l = Logger_log(@, "Good pressure range " \o ToString(MIN_PRESSURE)
                                    \o " to " \o ToString(MAX_PRESSURE) \o " dbar"),
                !.vars = setitem(@, "pres_QC", pressure_QC),
                !.vattrs = setitem(@, "pres_QC",
                                   [quality_test |-> <<pressure_quality_test>>]),
                !.loc.pressure_flags = pressure_flags,
                !.loc.vel_flags = set_flags(@, untouched, 4),
                !.loc.vel_qc_test = Append(@, pressure_quality_test)]

qc_pressure(f, a) ==
    IF f.exc # "None" \/ "pres" \notin DOMAIN f.vars THEN f
    ELSE LET pressure_flags == pressure_test(f.vars)
             pressure_QC == set_flags(full1d(1), pressure_flags, 4)
         IN  [f EXCEPT
                !.l = Logger_log(@, "Good pressure range " \o ToString(MIN_PRESSURE)
                                    \o " to " \o ToString(MAX_PRESSURE) \o " dbar"),
                !.vars = setitem(@, "pres_QC", pressure_QC),
                !.vattrs = setitem(@, "pres_QC",
                                   [quality_test |-> <<pressure_quality_test>>]),
                !.loc.pressure_flags = pressure_flags,
                !.loc.vel_flags = set_flags(@, tile(pressure_flags), 4),
                !.loc.vel_qc_test = Append(@, pressure_quality_test)]

temperature_quality_test ==
    "temperature_threshold: less than " \o ToString(MIN_TEMPERATURE)
    \o " celcius and greater than " \o ToString(MAX_TEMPERATURE) \o " celsius"

(* Variant: a temperature out of range also marks the velocity flags *)
qc_temperature_back_propagates(f, a) ==
    IF f.exc # "None" \/ "temperature" \notin DOMAIN f.vars THEN f
    ELSE LET temperature_QC == set_flags(full1d(1), temperature_test(f.vars), 4)
         IN  [f EXCEPT
                !.l = Logger_log(@, "Good temperature range " \o ToString(MIN_TEMPERATURE)
                                    \o " to " \o ToString(MAX_TEMPERATURE) \o " celsius"),
                !.vars = setitem(@, "temperature_QC", temperature_QC),
                !.vattrs = setitem(@, "temperature_QC",
                                   [quality_test |-> <<temperature_quality_test>>]),
                !.loc.vel_flags = set_flags(@, tile(temperature_test(f.vars)), 4)]

qc_temperature(f, a) ==
    IF f.exc # "None" \/ "temperature" \notin DOMAIN f.vars THEN f
    ELSE LET temperature_QC == set_flags(full1d(1), temperature_test(f.vars), 4)
         IN  [f EXCEPT
                !.l = Logger_log(@, "Good temperature range " \o ToString(MIN_TEMPERATURE)
                                    \o " to " \o ToString(MAX_TEMPERATURE) \o " celsius"),
                !.vars = setitem(@, "temperature_QC", temperature_QC),
                !.vattrs = setitem(@, "temperature_QC",
                                   [quality_test |-> <<temperature_quality_test>>])]

(* str * bool: the string when the variable is in the dataset, else nothing *)
if_in(dv, name, line) == IF name \in DOMAIN dv THEN <<line>> ELSE <<>>

qc_vertical_beam(f, a) ==
    IF f.exc # "None" \/ "vb_vel" \notin DOMAIN f.vars THEN f
    ELSE LET vb_flag == vertical_beam_test(f.vars, a.amp_th, a.corr_th, a.pg_th)
         IN  [f EXCEPT
                !.l = Logger_log(@,
                    "Fifth beam quality control carried out with"
                    \o (IF "vb_amp" \in DOMAIN f.vars
                        THEN "amplitude_threshold: " \o ToString(a.amp_th) ELSE "")
                    \o (IF "vb_corr" \in DOMAIN f.vars
                        THEN ", correlation_threshold: " \o ToString(a.corr_th) ELSE "")
                    \o (IF "vb_pg" \in DOMAIN f.vars
                        THEN ", percentgood_threshold: " \o ToString(a.pg_th) ELSE "")
                    \o "."),
                \* vb_flag * 3
                !.vars = setitem(@, "vb_vel_QC",
                                 [c \in Cells |-> IF vb_flag[c] THEN 3 ELSE 0]),
                !.vattrs = setitem(@, "vb_vel_QC",
                    [quality_test |->
                        if_in(f.vars, "vb_amp",
                              "amplitude_threshold: " \o ToString(a.amp_th))
                        \o if_in(f.vars, "vb_corr",
                              "correlation_threshold: " \o ToString(a.corr_th))
                        \o if_in(f.vars, "vb_pg",
                              "percentgood_threshold: " \o ToString(a.pg_th))])]

(* np.bitwise_or(x1, x2, out): the third positional argument of the ufunc is
   its output array, so the result is x1 | x2. *)
bitwise_or(x1, x2, out) == [c \in DOMAIN out |-> x1[c] \/ x2[c]]

not_finite(arr) == [c \in DOMAIN arr |-> ~isfinite(arr[c])]

qc_missing(f, a) ==
    IF f.exc # "None" THEN f
    ELSE LET missing_vel == bitwise_or(not_finite(f.vars["u"]),
                                       not_finite(f.vars["v"]),
                                       not_finite(f.vars["w"]))
         IN  [f EXCEPT !.loc.missing_vel = missing_vel,
                       !.loc.vel_flags = set_flags(@, missing_vel, 9)]

(* dataset[v + "_QC"] = vel_flags, with its quality_test attribute *)
write_QC(f, v) ==
    [f EXCEPT !.vars = setitem(@, v \o "_QC", f.loc.vel_flags),
              !.vattrs = setitem(@, v \o "_QC", [quality_test |-> f.loc.vel_qc_test])]

QC_VARIABLES == {"temperature_QC", "pres_QC", "u_QC", "v_QC", "w_QC", "vb_vel_QC"}

(* the loop over the variables whose name holds "_QC": the flag metadata *)
stamp_QC(f) ==
    [f EXCEPT !.vattrs =
        [n \in DOMAIN @ |->
            IF n \in QC_VARIABLES \cap DOMAIN f.vars
            THEN [quality_test |-> @[n].quality_test, flag_reference |-> FLAG_REFERENCE]
            ELSE @[n]]]

qc_write(f, a) ==
    IF f.exc # "None" THEN f
    ELSE stamp_QC(write_QC(write_QC(write_QC(f, "u"), "v"), "w"))

(* dataset.attrs["logbook"] += l.logbook raises KeyError without a logbook *)
qc_logbook(f, a) ==
    IF f.exc # "None" THEN f
    ELSE LET f1 == [f EXCEPT
                      !.attrs = setitem(@, "quality_comments", f.l.logbook),
                      !.l = Logger_log(@, "Quality Control was carried out with "
                                          \o ToString(f.l.w_count) \o " warnings")]
         IN  IF "logbook" \notin DOMAIN f1.attrs
             THEN [f1 EXCEPT !.exc = "KeyError"]
             ELSE [f1 EXCEPT
                     !.attrs = setitem(setitem(@, "logbook", @["logbook"] \o f1.l.logbook),
                                       "flags_reference", FLAG_REFERENCE)]

(* adcp_quality_control after its first lines (qc_start).  gh, gv, ge: what
   the uninitialized cells of the three velocity tests hold. *)
qc_rest(f1, a, gh, gv, ge) ==
    qc_logbook(qc_write(qc_missing(qc_vertical_beam(qc_temperature(qc_pressure(
    qc_sidelobes(qc_pitch(qc_roll(qc_error_vel(qc_vertical_vel(qc_horizontal_vel(
    qc_percentgood(qc_correlation(qc_amplitude(f1,
    a), a), a), a, gh), a, gv), a, ge), a), a), a), a), a), a), a), a), a)

(* Variant: astype("int8") without the multiplication by 0 *)
zero_QC_as_int(dv, var) ==
    IF var \in DOMAIN dv
    THEN setitem(dv, var \o "_QC", [c \in DOMAIN dv[var] |->
                                       IF isfinite(dv[var][c]) THEN dv[var][c] ELSE 0])
    ELSE dv

(* no_adcp_quality_control *)
zero_QC(dv, var) ==
    IF var \in DOMAIN dv
    THEN setitem(dv, var \o "_QC", [c \in DOMAIN dv[var] |-> 0])  \* astype("int8") * 0
    ELSE dv

no_adcp_quality_control_frame(f) ==
    [f EXCEPT
        !.l = Logger_log(Logger_section(Logger_reset(@), "No Quality Controlled"),
                         "No quality control carried out"),
        !.vars = zero_QC(zero_QC(zero_QC(zero_QC(zero_QC(@,
                     "temperature"), "pres"), "u"), "v"), "w"),
        !.attrs = setitem(setitem(@, "flags_reference", FLAG_REFERENCE),
                          "quality_comments", <<"No quality control.">>)]

----------------------------------------------------------------------------
(* The datasets the model starts from.  Every array holds its nominal value
   (a value that passes every test, on the threshold where there is one)
   except at one cell and one time sample, where the variables of one group
   take other values. *)

CellVars == {"u", "v", "w", "e", "pg", "amp1", "amp2", "amp3", "amp4",
             "corr1", "corr2", "corr3", "corr4",
             "vb_vel", "vb_amp", "vb_corr", "vb_pg"}

Nominal ==
    [n \in {"amp1", "amp2", "amp3", "amp4", "vb_amp"} |-> 30]
    @@ [n \in {"corr1", "corr2", "corr3", "corr4", "vb_corr"} |-> 64]
    @@ [n \in {"pg", "vb_pg"} |-> 90]
    @@ [n \in {"roll_", "pitch"} |-> 20]
    @@ [n \in {"bt_u", "bt_v", "bt_w", "u_ship", "v_ship"} |-> 1]
    @@ [n \in {"xducer_depth", "lon", "vb_vel"} |-> 0]
    @@ ("u" :> 3) @@ ("v" :> 4) @@ ("w" :> 5) @@ ("e" :> 5)
    @@ ("pres" :> 10000) @@ ("temperature" :> 32) @@ ("bt_depth" :> 100)

(* The set of maps m with the keys of dom and m[k] \in dom[k] *)
Choices(dom) ==
    {m \in [DOMAIN dom -> UNION {dom[k] : k \in DOMAIN dom}] :
        \A k \in DOMAIN dom : m[k] \in dom[k]}

(* The same value on the four beams *)
beams(prefix, x) ==
    (prefix \o "1" :> x) @@ (prefix \o "2" :> x) @@ (prefix \o "3" :> x)
    @@ (prefix \o "4" :> x)

Dataset(present, c0, cell, t0, time) ==
    [n \in present |->
        IF n \in CellVars
        THEN [c \in Cells |-> IF c = c0 /\ n \in DOMAIN cell THEN cell[n] ELSE Nominal[n]]
        ELSE [t \in Times |-> IF t = t0 /\ n \in DOMAIN time THEN time[n] ELSE Nominal[n]]]

(* The variables of a dataset of a four-beam, transducer-referenced ADCP *)
BaseVars == {"u", "v", "w", "e", "pg", "amp1", "amp2", "amp3", "amp4",
             "corr1", "corr2", "corr3", "corr4", "roll_", "pitch",
             "bt_u", "bt_v", "bt_w", "bt_depth", "xducer_depth"}

(* The log the loader leaves *)
LoaderLogbook == <<"[Loading RDI]", "File(s) loaded with 0 warnings">>

(* The attributes of a dataset whose logbook attribute has been set *)
BaseAttrs ==
    ("beam_angle" :> 20) @@ ("orientation" :> "down") @@ ("logbook" :> LoaderLogbook)

(* The attributes load_rdi_binary sets *)
LoaderAttrs ==
    ("beam_angle" :> 20) @@ ("orientation" :> "down")
    @@ ("_vartmp_XducerDepth" :> 0) @@ ("_vartmp_logbook" :> LoaderLogbook)

NoChange == <<>>    \* no variable takes another value

(* The arguments of adcp_quality_control: its defaults, and the calls that
   change some of them. *)
DefaultArgs ==
    [amp_th |-> 30, corr_th |-> 64, pg_th |-> 90, roll_th |-> 20, pitch_th |-> 20,
     horizontal_vel_th |-> 5, vertical_vel_th |-> 5, error_vel_th |-> 5,
     motion_correction_mode |-> "", sidelobes_correction |-> FALSE,
     bottom_depth |-> 0]

Thresholds == {"amp_th", "corr_th", "pg_th", "roll_th", "pitch_th",
               "horizontal_vel_th", "vertical_vel_th", "error_vel_th"}

Without(ths) == [k \in DOMAIN DefaultArgs |-> IF k \in ths THEN 0 ELSE DefaultArgs[k]]

OneOff == {Without({th}) : th \in Thresholds}

MotionArgs ==
    {[DefaultArgs EXCEPT !.motion_correction_mode = mode] : mode \in {"bt", "nav", "xx"}}

SidelobeArgs ==
    {[DefaultArgs EXCEPT !.sidelobes_correction = TRUE, !.bottom_depth = bd] :
        bd \in {0, 100, 50}}

NoLocals ==
    [vel_flags |-> full2d(0), vel_qc_test |-> <<>>,
     amp_flag |-> full2d(FALSE), corr_flag |-> full2d(FALSE),
     pg_flag |-> full2d(FALSE), horizontal_vel_flag |-> full2d(FALSE),
     vertical_vel_flag |-> full2d(FALSE), error_vel_flag |-> full2d(FALSE),
     roll_flag |-> full2d(FALSE), pitch_flag |-> full2d(FALSE),
     sidelobe_flag |-> full2d(FALSE), pressure_flags |-> full1d(FALSE),
     missing_vel |-> full2d(FALSE)]

(* The module-level logger l = Logger(level=0): as created, or as an earlier
   call left it *)
Loggers ==
    {Logger_init(0),
     Logger_warning(Logger_section(Logger_init(0), "Quality Control"), "earlier warning")}

(* The state before a call: the dataset dv, da, the arguments a the caller
   is about to pass, and the logger lg *)
StartWith(dv, da, a, lg) ==
    /\ dataset_vars = dv
    /\ dataset_attrs = da
    /\ args = a
    /\ var_attrs = <<>>
    /\ l = lg
    /\ pc = "ready"
    /\ op = ""
    /\ exc = "None"
    /\ locals = NoLocals

Start(dv, da, a) == StartWith(dv, da, a, Logger_init(0))

(* Velocities on both sides of the plausibility bound and of the thresholds *)
VelVals == {NaN, -15, -6, 3, 4, 5, 16}

VelocityCalls ==
    \E c \in Cells, m \in Choices([n \in {"u", "v", "w"} |-> VelVals]),
       a \in {DefaultArgs, Without(Thresholds)} :
        Start(Dataset(BaseVars, c, m, 1, NoChange), BaseAttrs, a)

BeamCalls ==
    \E c \in Cells, x \in {3, NaN},
       m \in Choices([n \in {"amp1", "amp2", "amp3", "amp4"} |-> {29, 30, NaN}])
              \cup Choices([n \in {"corr1", "corr2", "corr3", "corr4"} |-> {63, 64, NaN}]),
       a \in {DefaultArgs, Without({"amp_th"}), Without({"corr_th"})} :
        Start(Dataset(BaseVars, c, m @@ ("u" :> x), 1, NoChange), BaseAttrs, a)

CellFailures ==
    {NoChange, beams("amp", 29), beams("corr", 63), "pg" :> 89, "e" :> 6, "e" :> NaN}

TimeFailures ==
    {NoChange, "roll_" :> 21, "pitch" :> 21, "pres" :> 10001, "pres" :> -1,
     "pres" :> NaN, "temperature" :> 33, "temperature" :> -3, "temperature" :> NaN}

WithPressure == {BaseVars, BaseVars \cup {"pres", "temperature"}}

(* One failure at a cell, one at a time sample, with or without a missing
   velocity at the cell *)
MixedCalls ==
    \E present \in WithPressure, c \in Cells, t \in Times,
       m \in {NoChange, "u" :> NaN, "w" :> NaN},
       g \in CellFailures, h \in TimeFailures,
       a \in {DefaultArgs, Without(Thresholds)} :
        Start(Dataset(present, c, m @@ g, t, h), BaseAttrs, a)

(* One failure at a cell, one at a time sample, and one test switched off *)
FailureCalls ==
    \E present \in WithPressure, c \in Cells, t \in Times,
       g \in CellFailures \cup {"u" :> 4, "w" :> 6}, h \in TimeFailures,
       a \in OneOff :
        Start(Dataset(present, c, g, t, h), BaseAttrs, a)

(* A variable a test needs is not in the dataset *)
AbsentCalls ==
    \E x \in {"amp3", "corr2", "pg", "roll_", "pitch", "e", "bt_u", "bt_w"},
       c \in Cells, y \in {3, NaN}, a \in {DefaultArgs} \cup OneOff :
        Start(Dataset(BaseVars \ {x}, c, "u" :> y, 1, NoChange), BaseAttrs, a)

(* A dataset with the fifth beam *)
VerticalBeamCalls ==
    \E channels \in SUBSET {"vb_amp", "vb_corr", "vb_pg"}, c \in Cells,
       m \in Choices(("vb_vel" :> {0, NaN}) @@ ("vb_amp" :> {29, 30, NaN})
                     @@ ("vb_corr" :> {63, 64}) @@ ("vb_pg" :> {89, 90})),
       a \in {DefaultArgs, Without(Thresholds), Without({"amp_th"}),
              Without({"corr_th"}), Without({"pg_th"})} :
        Start(Dataset(BaseVars \cup {"vb_vel"} \cup channels, c, m, 1, NoChange),
              BaseAttrs, a)

(* Calls with motion correction, with or without the variables it needs *)
MotionCalls ==
    \E nav \in {{"u_ship", "v_ship", "lon"}, {"u_ship", "v_ship"}, {"u_ship", "lon"}, {}},
       absent \in {{}, {"bt_w"}, {"bt_u", "bt_v"}},
       t \in Times,
       h \in Choices(("bt_u" :> {1, -13, NaN}) @@ ("u_ship" :> {1, NaN})
                     @@ ("v_ship" :> {1, 2}) @@ ("lon" :> {0, NaN})),
       a \in MotionArgs, lg \in Loggers :
        StartWith(Dataset((BaseVars \cup nav) \ absent, <<1, 1>>, NoChange, t, h),
                  BaseAttrs, a, lg)

SidelobeAttrs ==
    {BaseAttrs,
     ("beam_angle" :> 0) @@ BaseAttrs,
     ("orientation" :> "up") @@ BaseAttrs,
     ("orientation" :> "") @@ BaseAttrs,
     ("orientation" :> "sideways") @@ BaseAttrs,
     ("xducer_depth" :> 10) @@ BaseAttrs,
     ("xducer_depth" :> 1000) @@ ("orientation" :> "up") @@ BaseAttrs,
     ("orientation" :> "down") @@ ("logbook" :> LoaderLogbook),
     ("beam_angle" :> 20) @@ ("logbook" :> LoaderLogbook)}

(* Calls with the sidelobe correction *)
SidelobeCalls ==
    \E absent \in SUBSET {"xducer_depth", "bt_depth"}, da \in SidelobeAttrs,
       y \in {3, NaN}, t \in Times,
       h \in Choices(("xducer_depth" :> {0, 1000, NaN}) @@ ("bt_depth" :> {100, 50, NaN})),
       a \in SidelobeArgs :
        Start(Dataset(BaseVars \ absent, <<1, 1>>, "u" :> y, t, h), da, a)

(* Calls on what load_rdi_binary returns *)
LoaderCalls ==
    \E c \in Cells, y \in {3, NaN}, a \in {DefaultArgs} \cup SidelobeArgs :
        Start(Dataset(BaseVars, c, "u" :> y, 1, NoChange), LoaderAttrs, a)

(* Datasets with any of the optional pres and temperature *)
OptionalCalls ==
    \E optional \in SUBSET {"pres", "temperature"}, c \in Cells, t \in Times,
       y \in {3, NaN}, h \in {NoChange, "pres" :> -1, "temperature" :> 33} :
        Start(Dataset(BaseVars \cup optional, c, "u" :> y, t, h), BaseAttrs, DefaultArgs)

Init ==
    \/ VelocityCalls
    \/ OptionalCalls
    \/ BeamCalls
    \/ MixedCalls
    \/ FailureCalls
    \/ AbsentCalls
    \/ VerticalBeamCalls
    \/ MotionCalls
    \/ SidelobeCalls
    \/ LoaderCalls

----------------------------------------------------------------------------
Frame == [vars |-> dataset_vars, attrs |-> dataset_attrs, vattrs |-> var_attrs,
          l |-> l, exc |-> "None", loc |-> NoLocals]

(* The end of a call: the frame becomes the program state *)
Finish(f, name) ==
    /\ dataset_vars' = f.vars
    /\ dataset_attrs' = f.attrs
    /\ var_attrs' = f.vattrs
    /\ l' = f.l
    /\ exc' = f.exc
    /\ locals' = f.loc
    /\ pc' = "done"
    /\ op' = name
    /\ UNCHANGED args

mask(S) == [c \in Cells |-> c \in S]

adcp_quality_control ==
    /\ pc = "ready"
    /\ \E f1 \in {qc_start(Frame, args)} :
        LET ran == f1.exc = "None"
            \* the cells the velocity tests leave uninitialized
            nf_h == IF ran /\ args.horizontal_vel_th # 0
                    THEN {c \in Cells : ~isfinite(f1.vars["u"][c])
                                        \/ ~isfinite(f1.vars["v"][c])}
                    ELSE {}
            nf_v == IF ran /\ args.vertical_vel_th # 0
                    THEN {c \in Cells : ~isfinite(f1.vars["w"][c])} ELSE {}
            nf_e == IF ran /\ args.error_vel_th # 0
                    THEN {c \in Cells : ~isfinite(f1.vars["w"][c])} ELSE {}
        IN  \E gh \in SUBSET nf_h, gv \in SUBSET nf_v, ge \in SUBSET nf_e :
            \E f \in {qc_rest(f1, args, mask(gh), mask(gv), mask(ge))} :
                Finish(f, "adcp_quality_control")

no_adcp_quality_control ==
    /\ pc = "ready"
    /\ \E f \in {no_adcp_quality_control_frame(Frame)} :
        Finish(f, "no_adcp_quality_control")

(* motion_correction(dataset, mode), with the mode of the arguments *)
MotionCorrection ==
    /\ pc = "ready"
    /\ args.motion_correction_mode # ""
    /\ \E f \in {motion_correction(Frame, args.motion_correction_mode)} :
        Finish(f, "motion_correction")

SetImplausibleVelToNan ==
    /\ pc = "ready"
    /\ \E f \in {[Frame EXCEPT !.vars =
                      set_implausible_vel_to_nan(@, IMPLAUSIBLE_VEL_TRESHOLD)]} :
        Finish(f, "set_implausible_vel_to_nan")

Next ==
    \/ adcp_quality_control
    \/ no_adcp_quality_control
    \/ MotionCorrection
    \/ SetImplausibleVelToNan

Spec == Init /\ [][Next]_vars

(* ------------------------------------------------------------------ *)
(* Properties                                                          *)
(* ------------------------------------------------------------------ *)

(* The call named name has ended, by a return or by an exception *)
Ended(name) == pc = "done" /\ op = name

(* adcp_quality_control has returned *)
Completed == Ended("adcp_quality_control") /\ exc = "None"

Velocities == {"u", "v", "w"}

(* u, v or w of the dataset is not finite at cell c *)
NonFinite(c) == \E x \in Velocities : ~isfinite(dataset_vars[x][c])

(* Every velocity flag variable holds value at cell c *)
Flagged(c, value) == \A x \in Velocities : dataset_vars[x \o "_QC"][c] = value

(* The recorded test lines say that test ran *)
Ran(test) == \E i \in DOMAIN locals.vel_qc_test : locals.vel_qc_test[i] = test

(* C1: once adcp_quality_control has returned, every cell where u, v or w
   is not finite holds flag 9 in u_QC, v_QC and w_QC, whatever other test
   the cell or its time sample failed. *)
C1_MissingIsNine ==
    Completed => \A c \in Cells : NonFinite(c) => Flagged(c, 9)

(* A returned call where a cell without velocity also failed the amplitude
   test and sits in a time sample whose pressure is out of range *)
C1_Witness ==
    /\ Completed
    /\ \E c \in Cells : /\ NonFinite(c)
                        /\ locals.amp_flag[c]
                        /\ locals.pressure_flags[c[2]]
                        /\ Flagged(c, 9)

(* Pressure of time sample t is out of the accepted range *)
PressureOut(t) ==
    \/ gt(dataset_vars["pres"][t], MAX_PRESSURE)
    \/ lt(dataset_vars["pres"][t], MIN_PRESSURE)

(* C2, as stated: with pres in the dataset, a time sample whose pressure is
   above 10000 or below 0 gets 4 in pres_QC and 4 at every depth of its
   column in u_QC, v_QC and w_QC. *)
C2_PressureColumnIsFour ==
    (Completed /\ "pres" \in DOMAIN dataset_vars) =>
        \A t \in Times : PressureOut(t) =>
            /\ dataset_vars["pres_QC"][t] = 4
            /\ \A d \in Depths : Flagged(<<d, t>>, 4)

(* C2, amended: with pres in the dataset, a time sample whose pressure is
   above 10000 or below 0 gets 4 in pres_QC and, in u_QC, v_QC and w_QC, 4 at
   every depth of its column where u, v and w are finite (overriding 1 and
   3), and 9 at the depths where a velocity is not finite. *)
C2_PressureColumnIsFourOrNine ==
    (Completed /\ "pres" \in DOMAIN dataset_vars) =>
        \A t \in Times : PressureOut(t) =>
            /\ dataset_vars["pres_QC"][t] = 4
            /\ \A d \in Depths :
                  Flagged(<<d, t>>, IF NonFinite(<<d, t>>) THEN 9 ELSE 4)

(* A returned call where the pressure of a time sample is out of range, one
   cell of the column had failed the amplitude test (flag 3 until then),
   another had passed every test (flag 1 until then), and both hold 4 *)
C2_Witness ==
    /\ Completed
    /\ "pres" \in DOMAIN dataset_vars
    /\ \E t \in Times : \E d1, d2 \in Depths :
          /\ PressureOut(t)
          /\ locals.amp_flag[<<d1, t>>] /\ ~locals.amp_flag[<<d2, t>>]
          /\ Flagged(<<d1, t>>, 4) /\ Flagged(<<d2, t>>, 4)
          /\ dataset_vars["pres_QC"][t] = 4

(* All four beams of prefix are strictly below threshold at cell c *)
AllBeamsBelow(prefix, threshold, c) ==
    \A b \in {"1", "2", "3", "4"} : lt(dataset_vars[prefix \o b][c], threshold)

(* No test other than the amplitude and correlation tests caught cell c *)
NothingElse(c) ==
    /\ ~locals.pg_flag[c] /\ ~locals.horizontal_vel_flag[c]
    /\ ~locals.vertical_vel_flag[c] /\ ~locals.error_vel_flag[c]
    /\ ~locals.roll_flag[c] /\ ~locals.pitch_flag[c]
    /\ ~locals.sidelobe_flag[c] /\ ~locals.pressure_flags[c[2]]
    /\ ~NonFinite(c)

(* C3: the amplitude test, and likewise the correlation test, catches a
   cell only when all four beams are strictly below the threshold there;
   a cell with at least one beam at or above the threshold is not flagged by
   the test, and holds 1 when nothing else caught it, while a cell with all
   four below holds 3 when nothing else caught it. *)
C3_AllFourBeams ==
    /\ (Ended("adcp_quality_control") /\ Ran("amplitude_threshold:30")) =>
           \A c \in Cells : locals.amp_flag[c] <=> AllBeamsBelow("amp", args.amp_th, c)
    /\ (Ended("adcp_quality_control") /\ Ran("correlation_threshold:64")) =>
           \A c \in Cells : locals.corr_flag[c] <=> AllBeamsBelow("corr", args.corr_th, c)
    /\ (Completed /\ Ran("amplitude_threshold:30") /\ Ran("correlation_threshold:64")) =>
           \A c \in Cells : NothingElse(c) =>
               Flagged(c, IF \/ AllBeamsBelow("amp", args.amp_th, c)
                             \/ AllBeamsBelow("corr", args.corr_th, c)
                          THEN 3 ELSE 1)

(* A returned call where three amplitude beams of a cell are below the
   threshold and the fourth is at it, and the cell holds 1 *)
C3_Witness ==
    /\ Completed
    /\ Ran("amplitude_threshold:30")
    /\ \E c \in Cells :
          /\ \E b \in {"1", "2", "3", "4"} :
                /\ dataset_vars["amp" \o b][c] = args.amp_th
                /\ \A o \in {"1", "2", "3", "4"} \ {b} :
                      lt(dataset_vars["amp" \o o][c], args.amp_th)
          /\ Flagged(c, 1)

(* The variables each enabled test needs that the dataset lacks *)
Prerequisites ==
    [amp_th |-> {"amp1", "amp2", "amp3", "amp4"},
     corr_th |-> {"corr1", "corr2", "corr3", "corr4"},
     pg_th |-> {"pg"}, roll_th |-> {"roll_"}, pitch_th |-> {"pitch"},
     error_vel_th |-> {"e"}]

SkippedTests ==
    {th \in DOMAIN Prerequisites :
        args[th] # 0 /\ ~(Prerequisites[th] \subseteq DOMAIN dataset_vars)}

(* C4, as stated: when the variables an enabled test needs are not in the
   dataset, adcp_quality_control still returns, with a warning counted and
   the velocity flags written. *)
C4_AbsentVariablesSkipTest ==
    (Ended("adcp_quality_control") /\ SkippedTests # {}) =>
        /\ exc = "None"
        /\ l.w_count >= 1
        /\ \A x \in Velocities : x \o "_QC" \in DOMAIN dataset_vars

BottomTrack == {"bt_u", "bt_v", "bt_w"}

(* C5: motion_correction in mode "bt" on a dataset lacking one of bt_u,
   bt_v, bt_w returns with u, v and w as they were, one more warning
   counted and one more line in the log. *)
C5_BottomTrackMissing ==
    [][(/\ pc = "ready"
        /\ op' = "motion_correction"
        /\ args.motion_correction_mode = "bt"
        /\ ~(BottomTrack \subseteq DOMAIN dataset_vars))
       => /\ exc' = "None"
          /\ dataset_vars' = dataset_vars
          /\ l'.w_count = l.w_count + 1
          /\ Len(l'.logbook) = Len(l.logbook) + 1]_vars

(* motion_correction in mode "bt" has returned on a dataset with bt_u and
   bt_v and without bt_w, on top of the warning an earlier call had left *)
C5_Witness ==
    /\ Ended("motion_correction")
    /\ args.motion_correction_mode = "bt"
    /\ BottomTrack \cap DOMAIN dataset_vars = {"bt_u", "bt_v"}
    /\ exc = "None"
    /\ l.w_count = 2

(* C6, as stated: motion_correction in mode "nav" on a dataset with u_ship
   and v_ship returns, with the ship velocity (0 where lon is not finite)
   added to u and v at every depth, u_ship and v_ship overwritten with the
   corrected u and v, and w as it was. *)
C6_NavigationCorrection ==
    [][(/\ pc = "ready"
        /\ op' = "motion_correction"
        /\ args.motion_correction_mode = "nav"
        /\ {"u_ship", "v_ship", "lon"} \subseteq DOMAIN dataset_vars)
       => /\ exc' = "None"
          /\ \A x \in {"u", "v"} : \A c \in Cells :
                dataset_vars'[x][c] =
                    add(dataset_vars[x][c],
                        IF isfinite(dataset_vars["lon"][c[2]])
                        THEN dataset_vars[x \o "_ship"][c[2]] ELSE 0)
          /\ dataset_vars'["u_ship"] = dataset_vars'["u"]
          /\ dataset_vars'["v_ship"] = dataset_vars'["v"]
          /\ dataset_vars'["w"] = dataset_vars["w"]]_vars

Flagless == {"temperature", "pres", "u", "v", "w"}

(* C7: after no_adcp_quality_control, each of temperature, pres, u, v, w
   that is in the dataset has a <var>_QC of its shape holding 0 everywhere,
   whatever the data; none is made for one that is not in the dataset. *)
C7_NoQualityControlIsZero ==
    Ended("no_adcp_quality_control") =>
        /\ exc = "None"
        /\ \A x \in Flagless :
              IF x \in DOMAIN dataset_vars
              THEN /\ x \o "_QC" \in DOMAIN dataset_vars
                   /\ DOMAIN dataset_vars[x \o "_QC"] = DOMAIN dataset_vars[x]
                   /\ \A c \in DOMAIN dataset_vars[x] : dataset_vars[x \o "_QC"][c] = 0
              ELSE x \o "_QC" \notin DOMAIN dataset_vars

(* no_adcp_quality_control has returned on a dataset with pres out of range,
   without temperature, and with a cell whose velocity is not finite *)
C7_Witness ==
    /\ Ended("no_adcp_quality_control")
    /\ "pres" \in DOMAIN dataset_vars
    /\ "temperature" \notin DOMAIN dataset_vars
    /\ \E t \in Times : PressureOut(t) /\ dataset_vars["pres_QC"][t] = 0
    /\ \E c \in Cells : NonFinite(c) /\ Flagged(c, 0)

(* C8, as stated: on a dataset as load_rdi_binary returns it,
   adcp_quality_control returns and the dataset's logbook attribute is the
   loader's log followed by the quality-control log. *)
C8_LoaderLogbookAppended ==
    (/\ Ended("adcp_quality_control")
     /\ "_vartmp_logbook" \in DOMAIN dataset_attrs
     /\ exc \notin {"AttributeError", "ValueError"})
    => /\ exc = "None"
       /\ "logbook" \in DOMAIN dataset_attrs
       /\ dataset_attrs["logbook"] = LoaderLogbook \o l.logbook

(* C9, as stated: with sidelobes_correction on a down-looking dataset whose
   beam angle, transducer depth and bottom depth are there,
   adcp_quality_control returns, the cells the side-lobe test caught hold 4
   unless their velocity is not finite, and the cells below nothing else
   caught hold 1. *)
C9_SidelobeFlagsFour ==
    (/\ Ended("adcp_quality_control")
     /\ args.sidelobes_correction
     /\ {"beam_angle", "orientation", "logbook"} \subseteq DOMAIN dataset_attrs
     /\ dataset_attrs["beam_angle"] # 0
     /\ dataset_attrs["orientation"] = "down"
     /\ "xducer_depth" \in DOMAIN dataset_vars \cup DOMAIN dataset_attrs
     /\ (args.bottom_depth # 0 \/ "bt_depth" \in DOMAIN dataset_vars))
    => /\ exc = "None"
       /\ \A c \in Cells :
             /\ (locals.sidelobe_flag[c] /\ ~NonFinite(c)) => Flagged(c, 4)
             /\ (~locals.sidelobe_flag[c] /\ NothingElse(c)
                 /\ ~locals.amp_flag[c] /\ ~locals.corr_flag[c]) => Flagged(c, 1)

(* A fifth-beam channel that is in the dataset, whose threshold is truthy,
   is below the threshold at cell c *)
FifthBeamBelow(c) ==
    \/ "vb_amp" \in DOMAIN dataset_vars /\ args.amp_th # 0
         /\ lt(dataset_vars["vb_amp"][c], args.amp_th)
    \/ "vb_corr" \in DOMAIN dataset_vars /\ args.corr_th # 0
         /\ lt(dataset_vars["vb_corr"][c], args.corr_th)
    \/ "vb_pg" \in DOMAIN dataset_vars /\ args.pg_th # 0
         /\ lt(dataset_vars["vb_pg"][c], args.pg_th)

(* C10, as stated: with vb_vel in the dataset, vb_vel_QC holds 3 at the cells
   where a fifth-beam channel in the dataset with a truthy threshold is below
   its threshold, and 1 everywhere else. *)
C10_VerticalBeamThreeOrOne ==
    (Completed /\ "vb_vel" \in DOMAIN dataset_vars) =>
        /\ "vb_vel_QC" \in DOMAIN dataset_vars
        /\ \A c \in Cells :
              dataset_vars["vb_vel_QC"][c] = IF FifthBeamBelow(c) THEN 3 ELSE 1

----------------------------------------------------------------------------
(* utils.Logger on its own: a logger of any level, driven by a sequence of
   section, log, warning and reset calls.  l is the logger; locals counts
   the calls made and the warning messages passed since construction or the
   last reset.  The dataset variables stay empty. *)

MaxCalls == 4       \* number of calls made on the logger

Levels == {0, 1, 2}

Messages == {"m1", "m2"}

(* What log() and warning() accept: one message or a list of messages *)
MessageArgs == {<<m>> : m \in Messages} \cup {<<"m1", "m2">>, <<>>}

(* log(msg) with a list: log of each element in turn *)
RECURSIVE Logger_log_list(_, _)
Logger_log_list(lg, msgs) ==
    IF msgs = <<>> THEN lg
    ELSE Logger_log_list(Logger_log(lg, Head(msgs)), Tail(msgs))

(* warning(msg) with a list: warning of each element in turn *)
RECURSIVE Logger_warning_list(_, _)
Logger_warning_list(lg, msgs) ==
    IF msgs = <<>> THEN lg
    ELSE Logger_warning_list(Logger_warning(lg, Head(msgs)), Tail(msgs))

LoggerInit ==
    /\ \E level \in Levels : l = Logger_init(level)
    /\ locals = [calls |-> 0, warnings |-> 0]
    /\ dataset_vars = <<>> /\ dataset_attrs = <<>> /\ var_attrs = <<>>
    /\ pc = "ready" /\ op = "" /\ args = <<>> /\ exc = "None"

(* One call on the logger: lg is the logger after it, passed the number of
   warning messages it was given, cleared whether it was reset() *)
LoggerCall(name, lg, passed, cleared) ==
    /\ pc = "ready"
    /\ locals.calls < MaxCalls
    /\ l' = lg
    /\ locals' = [calls |-> locals.calls + 1,
                  warnings |-> IF cleared THEN 0 ELSE locals.warnings + passed]
    /\ op' = name
    /\ UNCHANGED <<dataset_vars, dataset_attrs, var_attrs, pc, args, exc>>

LoggerSection ==
    \E section \in {"Loading", "Quality Control"} :
        LoggerCall("section", Logger_section(l, section), 0, FALSE)

LoggerLog ==
    \E msgs \in MessageArgs :
        LoggerCall("log", Logger_log_list(l, msgs), 0, FALSE)

LoggerWarning ==
    \E msgs \in MessageArgs :
        LoggerCall("warning", Logger_warning_list(l, msgs), Len(msgs), FALSE)

LoggerReset == LoggerCall("reset", Logger_reset(l), 0, TRUE)

LoggerNext ==
    \/ LoggerSection
    \/ LoggerLog
    \/ LoggerWarning
    \/ LoggerReset

LoggerSpec == LoggerInit /\ [][LoggerNext]_vars

(* C11, as stated: at every level, after any sequence of section, log,
   warning and reset calls, w_count is the number of warning messages passed
   to warning() since construction or the last reset. *)
C11_WarningsAlwaysCounted ==
    op \in {"section", "log", "warning", "reset"} => l.w_count = locals.warnings

----------------------------------------------------------------------------
(* adcp/loader.py.  load_rdi_binary gets the raw bundle `data` from the
   binary reader; here it is part of the arguments.  args holds the
   arguments and the bundle as read, locals the bundle as the call leaves
   it, dataset_vars (coordinates included) and dataset_attrs the dataset
   returned, l the loader's own Logger. *)

(* loader.Logger *)
LoaderLogger_init == [logbook |-> <<>>, w_count |-> 0]

LoaderLogger_section(lg, msg, time) ==
    [lg EXCEPT !.logbook = Append(@, "[" \o msg \o "]" \o time)]

(* "WARNING:" in msg *)
has_warning(msg) ==
    \E i \in 1..(Len(msg) - 7) : SubSeq(msg, i, i + 7) = "WARNING:"

LoaderLogger_log(lg, msg) ==
    [lg EXCEPT !.w_count = IF has_warning(msg) THEN @ + 1 ELSE @,
               !.logbook = Append(@, msg)]

RECURSIVE LoaderLogger_log_list(_, _)
LoaderLogger_log_list(lg, msgs) ==
    IF msgs = <<>> THEN lg
    ELSE LoaderLogger_log_list(LoaderLogger_log(lg, Head(msgs)), Tail(msgs))

(* Fractional days are counted in ticks, TicksPerSecond to the second *)
TicksPerSecond == 2

(* dday_to_datetime64: the instant yearbase-01-01 plus dday, formatted to
   the second (strftime drops the fraction) and read back as datetime64[s] *)
dday_to_datetime64(dday, yearbase) ==
    [t \in DOMAIN dday |->
        [year |-> yearbase, second |-> dday[t] \div TicksPerSecond]]

(* time.astype(str) *)
astype_str(time) ==
    [t \in DOMAIN time |->
        ToString(time[t].year) \o "-01-01T00:00:00+" \o ToString(time[t].second) \o "s"]

(* np.arange(len(dday)) / (3600 * 24): sample i is i seconds, in days *)
arange_seconds(dday) == [t \in DOMAIN dday |-> (t - 1) * TicksPerSecond]

(* Variant: only negative samples make the time bad *)
is_bad_time_negative_only(dday) == \E t \in DOMAIN dday : dday[t] < 0

(* (data.dday < 0).any() or (np.diff(data.dday) < 0).any() *)
is_bad_time(dday) ==
    \/ \E t \in DOMAIN dday : dday[t] < 0
    \/ \E t \in DOMAIN dday : t + 1 \in DOMAIN dday /\ dday[t + 1] - dday[t] < 0

(* np.median of a vector without nan *)
median(a) ==
    LET n == Cardinality(DOMAIN a)
        \* the k-th smallest sample
        kth(k) == CHOOSE x \in {a[t] : t \in DOMAIN a} :
                     /\ Cardinality({t \in DOMAIN a : a[t] < x}) < k
                     /\ Cardinality({t \in DOMAIN a : a[t] <= x}) >= k
    IN  IF n % 2 = 1 THEN kth((n + 1) \div 2)
        ELSE (kth(n \div 2) + kth(n \div 2 + 1)) \div 2

(* The frame of load_rdi_binary up to the making of the dataset: logger,
   time axis, depth below surface *)
load_start(a) ==
    LET data == a.data
        l0 == LoaderLogger_log(
                  LoaderLogger_section(LoaderLogger_init, "Loading RDI", " <now>"),
                  "File: " \o a.filenames)
        l1 == IF a.sonar = "sv"
              THEN LoaderLogger_log_list(l0,
                     <<"WARNING: (from pycurrents) The SV support is under development.  Missing features:",
                       "        - The 0x7000-0x7004 IDs are not being parsed and stored.",
                       "        - The Fixed Leader can change within a file",
                       "        - See pycurrents.adcp.rdiraw module for for information">>)
              ELSE l0
        bad_time == is_bad_time(data.dday)
        l2 == IF bad_time
              THEN LoaderLogger_log_list(l1,
                     <<"WARNING: The dday vector either contains negative values or is not monotonically increasing."
                       \o "WARNING: Time was replaced by a default datetime vector: 1 second timestep since "
                       \o ToString(a.yearbase)>>)
              ELSE l1
        time == IF bad_time THEN dday_to_datetime64(arange_seconds(data.dday), a.yearbase)
                ELSE dday_to_datetime64(data.dday, a.yearbase)
        transducer == data.sonar_model # "os"
        XducerDepth == IF transducer THEN median(data.XducerDepth) ELSE NaN
        l3 == IF transducer /\ a.sensor_depth # NaN
              THEN LoaderLogger_log(l2,
                     "The difference between sensor_depth and XDucerDepth is "
                     \o ToString(abs(a.sensor_depth - XducerDepth)) \o " m")
              ELSE l2
    IN  [l |-> l3, data |-> data, exc |-> "None",
         original |-> data.coordsystem,
         bad_time |-> bad_time, time |-> time, time_string |-> astype_str(time),
         XducerDepth |-> XducerDepth,
         \* the local `depth`, which nothing reads afterwards
         depth |-> IF ~transducer THEN <<>>
                   ELSE IF a.orientation = "down"
                   THEN [d \in Depths |-> XducerDepth + data.dep[d]]
                   ELSE [d \in Depths |-> XducerDepth - data.dep[d]],
         ds |-> <<>>, attrs |-> <<>>]

(* nans(shape) *)
nans2d == [c \in Cells |-> NaN]
nans1d == [t \in Times |-> NaN]

(* init_dataset: every variable filled with nan, on the coordinates depth
   and time it is given *)
init_dataset(time, dep, sonar) ==
    [n \in {"u", "v", "w", "e", "pg", "amp1", "amp2", "amp3", "amp4",
            "corr1", "corr2", "corr3", "corr4"} |-> nans2d]
    @@ [n \in {"lon", "lat", "roll_", "pitch", "heading", "bt_u", "bt_v", "bt_w",
               "bt_e", "bt_depth", "xducer_depth", "temp", "pres", "time_string"}
          |-> nans1d]
    @@ (IF sonar = "sv" THEN [n \in {"vb_vel", "vb_amp", "vb_corr"} |-> nans2d]
        ELSE <<>>)
    @@ ("depth" :> dep) @@ ("time" :> time)

(* Velocities of the bundle are counted in units of 0.0001 m/s.
   np.round(x, decimals=3): to the nearest multiple of 10 units, halves to
   the even one *)
round3(x) ==
    IF ~isfinite(x) THEN x
    ELSE LET r == x % 10
             base == x - r
         IN  IF r < 5 THEN base
             ELSE IF r > 5 THEN base + 10
             ELSE IF (base \div 10) % 2 = 0 THEN base ELSE base + 10

(* pycurrents Transform.beam_to_xyz on the four beams of one sample: a
   linear, invertible combination of the beams *)
beam_to_xyz(b) ==
    <<sub(b[1], b[2]), sub(b[4], b[3]),
      add(add(b[1], b[2]), add(b[3], b[4])),
      sub(add(b[1], b[2]), add(b[3], b[4]))>>

(* pycurrents rdi_xyz_enu on one sample: a rotation about the vertical,
   upside down when the instrument looks down *)
rdi_xyz_enu(x, orientation) ==
    <<x[2], sub(0, x[1]), IF orientation = "up" THEN x[3] ELSE sub(0, x[3]), x[4]>>

all_zero(a) == \A t \in DOMAIN a : a[t] = 0

(* (np.diff(a) == 0).all() *)
not_varying(a) == \A t \in DOMAIN a : t + 1 \in DOMAIN a => sub(a[t + 1], a[t]) = 0

(* coordsystem2earth: the bundle as it leaves it and the exception that
   ended it.  The CoordinateSystemError is constructed, not raised; its
   message reads data.sysconfig.coordsystem.  bt_xyze is bound in the beam
   branch only. *)
coordsystem2earth(data, orientation) ==
    IF data.coordsystem \notin {"beam", "xyz"} /\ ~data.sysconfig_coordsystem
    THEN [data |-> data, exc |-> "AttributeError"]
    ELSE
    LET beam == data.coordsystem = "beam"
        xyze == IF beam THEN [c \in Cells |-> beam_to_xyz(data.vel[c])] ELSE data.vel
        bt_xyze == [t \in Times |-> beam_to_xyz(data.bt_vel[t])]
    IN  IF all_zero(data.heading) \/ all_zero(data.roll) \/ all_zero(data.pitch)
        THEN IF beam
             THEN [data |-> [data EXCEPT
                       !.coordsystem = "xyz",
                       !.vel = [c \in Cells |-> [i \in 1..4 |-> round3(xyze[c][i])]],
                       !.bt_vel = [t \in Times |-> [i \in 1..4 |-> round3(bt_xyze[t][i])]]],
                   exc |-> "None"]
             ELSE [data |-> [data EXCEPT
                       !.coordsystem = "xyz",
                       !.vel = [c \in Cells |-> [@[c] EXCEPT ![1] = round3(xyze[c][1])]]],
                   exc |-> "UnboundLocalError"]
        ELSE IF beam
             THEN [data |-> [data EXCEPT
                       !.coordsystem = "earth",
                       !.vel = [c \in Cells |->
                                  [i \in 1..4 |-> round3(rdi_xyz_enu(xyze[c], orientation)[i])]],
                       !.bt_vel = [t \in Times |->
                                  [i \in 1..4 |-> round3(rdi_xyz_enu(bt_xyze[t], orientation)[i])]]],
                   exc |-> "None"]
             ELSE [data |-> data, exc |-> "UnboundLocalError"]

(* The fill value of the binary reader, -32768.0 *)
FillValue == -327680000

fill_to_nan(x) == IF x = FillValue THEN NaN ELSE x

(* np.nanmean over the beams of one sample *)
nanmean(b) ==
    LET good == {i \in DOMAIN b : isfinite(b[i])}
        RECURSIVE sum(_)
        sum(S) == IF S = {} THEN 0
                  ELSE LET i == CHOOSE i \in S : TRUE IN b[i] + sum(S \ {i})
    IN  IF good = {} THEN NaN ELSE sum(good) \div Cardinality(good)

(* Variant: the result of drop_vars is not kept *)
drop_vars_not_kept(ds, names) == ds

drop_vars(ds, names) == [n \in DOMAIN ds \ names |-> ds[n]]

(* load_rdi_binary from the making of the dataset to the transform *)
load_transform(f0, a) ==
    LET original == f0.data.coordsystem
        f1 == [f0 EXCEPT !.ds = init_dataset(f0.time, f0.data.dep, f0.data.sonar_model)]
    IN  IF original = "earth" THEN f1
        ELSE LET l1 == LoaderLogger_log(f1.l,
                          "The velocity data are in " \o original \o " coordinate")
                 r == coordsystem2earth(f1.data, a.orientation)
                 l2 == IF r.data.coordsystem = "xyz"
                       THEN LoaderLogger_log(l1,
                              "WARNING: Roll, Pitch or Heading seems to be missing from the data file.")
                       ELSE l1
             IN  IF r.exc # "None"
                 THEN [f1 EXCEPT !.l = l1, !.data = r.data, !.exc = r.exc]
                 ELSE [f1 EXCEPT
                         !.data = r.data,
                         !.l = LoaderLogger_log(l2,
                                 "The velocity data were transformed to "
                                 \o r.data.coordsystem)]

(* Component i of the velocity cube, transposed to depth x time *)
component(vel, i) == [c \in Cells |-> vel[c][i]]

(* load_rdi_binary after the transform: the variables *)
load_variables(f, a) ==
    LET data == [f.data EXCEPT
                    !.vel = [c \in Cells |-> [i \in 1..4 |-> fill_to_nan(@[c][i])]]]
        sv == data.sonar_model = "sv"
        transducer == data.sonar_model # "os"
        bt == ~(\A t \in Times : \A i \in 1..4 : data.bt_vel[t][i] = 0)
        mean_pg == f.original = "beam" /\ data.has_pg
        ds1 == [f.ds EXCEPT !["u"] = component(data.vel, 1),
                            !["v"] = component(data.vel, 2),
                            !["w"] = component(data.vel, 3),
                            !["e"] = component(data.vel, 4)]
        ds2 == IF sv THEN [ds1 EXCEPT !["vb_vel"] = [c \in Cells |-> fill_to_nan(data.vbvel[c])],
                                      !["vb_corr"] = data.VBCorrelation,
                                      !["vb_amp"] = data.VBIntensity]
               ELSE ds1
        ds3 == IF bt
               THEN [ds2 EXCEPT !["bt_u"] = [t \in Times |-> data.bt_vel[t][1]],
                                !["bt_v"] = [t \in Times |-> data.bt_vel[t][2]],
                                !["bt_w"] = [t \in Times |-> data.bt_vel[t][3]],
                                !["bt_e"] = [t \in Times |-> data.bt_vel[t][4]],
                                !["bt_depth"] = [t \in Times |-> nanmean(data.bt_depth[t])]]
               ELSE drop_vars(ds2, {"bt_u", "bt_v", "bt_w", "bt_e", "bt_depth"})
        ds4 == IF f.original = "beam"
               THEN IF data.has_pg THEN [ds3 EXCEPT !["pg"] = data.pg_mean] ELSE ds3
               ELSE [ds3 EXCEPT !["pg"] = data.pg4]
        ds5 == [ds4 EXCEPT !["corr1"] = data.cor, !["corr2"] = data.cor,
                           !["corr3"] = data.cor, !["corr4"] = data.cor,
                           !["amp1"] = data.amp, !["amp2"] = data.amp,
                           !["amp3"] = data.amp, !["amp4"] = data.amp]
        ds6 == IF transducer THEN [ds5 EXCEPT !["xducer_depth"] = data.XducerDepth]
               ELSE drop_vars(ds5, {"xducer_depth"})
        ds7 == IF data.rawnav
               THEN [ds6 EXCEPT !["lon"] = data.lon, !["lat"] = data.lat]
               ELSE drop_vars(ds6, {"lon", "lat"})
        \* pres is filled for wh and sv, and dropped in both branches
        ds8 == drop_vars(ds7, {"pres"})
        l1 == IF sv THEN LoaderLogger_log(f.l, "Data from the Sentinel V fifth beam loaded.")
              ELSE f.l
        l2 == LoaderLogger_log(l1,
                IF bt THEN "Bottom track data loaded"
                ELSE "Bottom track values were all 0 and so they were dropped from the ouput.")
        l3 == IF f.original = "beam"
              THEN LoaderLogger_log(l2,
                     IF data.has_pg
                     THEN "Percent good was computed by averaging each beam PercentGood. The raw data were in beam coordinate."
                     ELSE "WARNING: Percent good was not retrieve from the dataset.")
              ELSE l2
        l4 == IF data.rawnav THEN LoaderLogger_log(l3, " Navigation (GPS) data loaded.") ELSE l3
        l5 == IF transducer THEN LoaderLogger_log(l4, "Pressure data unavailable") ELSE l4
    IN  [f EXCEPT !.data = data, !.ds = ds8, !.l = l5,
                  !.XducerDepth = IF transducer THEN @ ELSE data.XducerDepth[1]]

(* A warning when a stream is all 0 or does not vary *)
stream_warning(lg, a, name) ==
    IF all_zero(a) \/ not_varying(a)
    THEN LoaderLogger_log(lg, "WARNING: " \o name \o " data are either all 0, or not variying.")
    ELSE lg

(* load_rdi_binary to its end: attitude, time strings, attributes, logbook *)
load_finish(f, a) ==
    LET data == f.data
        l1 == stream_warning(stream_warning(stream_warning(stream_warning(f.l,
                  data.heading, "Heading"), data.roll, "Roll"), data.pitch, "Pitch"),
                  data.temperature, "Temperature")
        ds1 == [f.ds EXCEPT !["heading"] = data.heading, !["roll_"] = data.roll,
                            !["pitch"] = data.pitch, !["temp"] = data.temperature,
                            !["time_string"] = f.time_string]
        ds2 == IF f.bad_time THEN setitem(ds1, "dday", data.dday) ELSE ds1
        l2 == LoaderLogger_log(l1,
                "File(s) loaded with " \o ToString(l1.w_count) \o " warnings")
    IN  [f EXCEPT
            !.ds = ds2,
            !.l = l2,
            !.attrs = ("_vartmp_XducerDepth" :> f.XducerDepth)
                      @@ ("coordsystem" :> data.coordsystem)
                      @@ ("beam_angle" :> data.angle)
                      @@ ("ping_frequency" :> data.kHz * 1000)
                      @@ ("bin_size" :> data.CellSize)
                      @@ ("orientation" :> a.orientation)
                      @@ ("instrument_serial" :> ToString(data.Inst_SN))
                      @@ ("_vartmp_logbook" :> l2.logbook)]

load_rdi_binary_frame(a) ==
    LET f0 == load_start(a)
        f1 == load_transform(f0, a)
    IN  IF f1.exc # "None" THEN f1
        ELSE load_finish(load_variables(f1, a), a)

(* Raw bundles.  The streams that no decision of the loader reads are the
   same in all of them. *)
RangeBins == [d \in Depths |-> 45 * d]

NominalData ==
    [sonar_model |-> "wh",
     dday |-> [t \in Times |-> 3 * t],
     XducerDepth |-> [t \in Times |-> 10],
     dep |-> RangeBins,
     coordsystem |-> "earth", sysconfig_coordsystem |-> FALSE,
     heading |-> [t \in Times |-> 90 + t], roll |-> [t \in Times |-> t],
     pitch |-> [t \in Times |-> 2 * t], temperature |-> [t \in Times |-> 4 + t],
     vel |-> [c \in Cells |-> <<1000, 2000, 3000, 4000>>],
     bt_vel |-> [t \in Times |-> <<500, 600, 700, 800>>],
     bt_depth |-> [t \in Times |-> <<100, 100, 106, NaN>>],
     rawnav |-> FALSE, lon |-> [t \in Times |-> -60], lat |-> [t \in Times |-> 48],
     has_pg |-> TRUE, pg_mean |-> full2d(95), pg4 |-> full2d(90),
     cor |-> full2d(64), amp |-> full2d(30),
     vbvel |-> full2d(0), VBCorrelation |-> full2d(64), VBIntensity |-> full2d(30),
     angle |-> 20, kHz |-> 300, CellSize |-> 45, Inst_SN |-> 1234]

(* Fractional days: increasing, constant, with a negative sample, decreasing *)
DdayChoices ==
    {[t \in Times |-> 3 * t], [t \in Times |-> 5],
     [t \in Times |-> IF t = 1 THEN -2 ELSE 3 * t], [t \in Times |-> 10 - 3 * t]}

XducerDepthChoices ==
    {[t \in Times |-> 10], [t \in Times |-> IF t = 1 THEN 6 ELSE 10 + 2 * t]}

(* Heading, roll, pitch: all there, all zero, one of them zero *)
AttitudeChoices ==
    {<<>>,
     [n \in {"heading", "roll", "pitch"} |-> [t \in Times |-> 0]],
     ("heading" :> [t \in Times |-> 0]),
     ("pitch" :> [t \in Times |-> 0])}

VelChoices ==
    {NominalData.vel,
     [c \in Cells |-> IF c = <<1, 1>> THEN <<FillValue, FillValue, FillValue, FillValue>>
                      ELSE <<1000, 2000, 3000, 4000>>],
     [c \in Cells |-> <<1004, 2005, 3015, 4000>>]}

(* Bottom track: there, all zero, one small sample, one sample of one beam *)
BtVelChoices ==
    {NominalData.bt_vel,
     [t \in Times |-> <<0, 0, 0, 0>>],
     [t \in Times |-> IF t = 1 THEN <<4, 0, 0, 0>> ELSE <<0, 0, 0, 0>>],
     [t \in Times |-> IF t = 1 THEN <<0, 0, 20, 0>> ELSE <<0, 0, 0, 0>>]}

BtDepthChoices ==
    {NominalData.bt_depth,
     [t \in Times |-> IF t = 1 THEN <<NaN, NaN, NaN, NaN>> ELSE <<100, 102, 104, 106>>]}

Sonars == {"os", "wh", "sv"}

(* No sensor_depth (None), or one *)
SensorDepths == {NaN, 20}

StartLoad(data, sonar, orientation, sensor_depth) ==
    /\ args = [filenames |-> "file.000", sonar |-> sonar, yearbase |-> 2020,
               orientation |-> orientation, sensor_depth |-> sensor_depth,
               data |-> data]
    /\ locals = [data |-> data]
    /\ l = LoaderLogger_init
    /\ dataset_vars = <<>> /\ dataset_attrs = <<>> /\ var_attrs = <<>>
    /\ pc = "ready" /\ op = "" /\ exc = "None"

(* Loads of data already in earth coordinates *)
TimeLoads ==
    \E dday \in DdayChoices, xd \in XducerDepthChoices, sonar \in Sonars,
       orientation \in {"up", "down"}, sensor_depth \in SensorDepths,
       rawnav \in BOOLEAN, btd \in BtDepthChoices :
        StartLoad([NominalData EXCEPT !.dday = dday, !.XducerDepth = xd,
                                      !.sonar_model = sonar, !.rawnav = rawnav,
                                      !.bt_depth = btd],
                  sonar, orientation, sensor_depth)

(* Loads of data in any coordinate system *)
TransformLoads ==
    \E cs \in {<<"beam", FALSE>>, <<"xyz", FALSE>>, <<"earth", FALSE>>,
               <<"ship", FALSE>>, <<"ship", TRUE>>},
       att \in AttitudeChoices, vel \in VelChoices, bt \in BtVelChoices,
       sonar \in Sonars, orientation \in {"up", "down"}, has_pg \in BOOLEAN :
        StartLoad(att @@ [NominalData EXCEPT !.coordsystem = cs[1],
                                             !.sysconfig_coordsystem = cs[2],
                                             !.vel = vel, !.bt_vel = bt,
                                             !.sonar_model = sonar, !.has_pg = has_pg],
                  sonar, orientation, NaN)

LoaderInit == TimeLoads \/ TransformLoads

load_rdi_binary ==
    /\ pc = "ready"
    /\ \E f \in {load_rdi_binary_frame(args)} :
        /\ l' = f.l
        /\ exc' = f.exc
        /\ locals' = [data |-> f.data]
        /\ dataset_vars' = IF f.exc = "None" THEN f.ds ELSE <<>>
        /\ dataset_attrs' = IF f.exc = "None" THEN f.attrs ELSE <<>>
    /\ pc' = "done"
    /\ op' = "load_rdi_binary"
    /\ UNCHANGED <<var_attrs, args>>

LoaderNext == load_rdi_binary

LoaderSpec == LoaderInit /\ [][LoaderNext]_vars

(* load_rdi_binary has ended, by a return or by an exception *)
Loaded == pc = "done" /\ op = "load_rdi_binary"

(* load_rdi_binary has returned a dataset *)
Returned == Loaded /\ exc = "None"

(* part occurs in msg *)
contains(msg, part) ==
    \E i \in 1..(Len(msg) - Len(part) + 1) : SubSeq(msg, i, i + Len(part) - 1) = part

(* The lines of the loader's log that speak of the replaced time *)
SubstitutionLines ==
    {i \in DOMAIN l.logbook : contains(l.logbook[i], "Time was replaced")}

(* C12: when the raw fractional days hold a negative value or a decrease,
   the time axis of the returned dataset is, sample after sample,
   yearbase-01-01T00:00:00 plus 0, 1, 2, ... seconds, of the length of the
   raw vector, and one line of the log, counted as one warning, tells it;
   otherwise each time is the raw fractional day cut to the second and no
   such line is logged.  Every line holding "WARNING:" counts for one. *)
C12_BadTimeReplaced ==
    Returned =>
        LET dday == args.data.dday
            time == dataset_vars["time"]
            bad == \/ \E t \in Times : dday[t] < 0
                   \/ \E t \in Times \ {NTime} : dday[t + 1] < dday[t]
        IN  /\ DOMAIN time = DOMAIN dday
            /\ \A t \in Times : time[t].year = args.yearbase
            /\ l.w_count = Cardinality({i \in DOMAIN l.logbook :
                                           contains(l.logbook[i], "WARNING:")})
            /\ IF bad
               THEN /\ \A t \in Times : time[t].second = t - 1
                    /\ Cardinality(SubstitutionLines) = 1
                    /\ \A i \in SubstitutionLines : contains(l.logbook[i], "WARNING:")
               ELSE /\ \A t \in Times :
                          /\ time[t].second * TicksPerSecond <= dday[t]
                          /\ dday[t] < (time[t].second + 1) * TicksPerSecond
                    /\ SubstitutionLines = {}

(* A load has returned whose fractional days were not negative but
   decreasing, with another warning besides the one about time *)
C12_Witness ==
    /\ Returned
    /\ \A t \in Times : args.data.dday[t] >= 0
    /\ \E t \in Times \ {NTime} : args.data.dday[t + 1] < args.data.dday[t]
    /\ dataset_vars["time"][NTime].second = NTime - 1
    /\ l.w_count >= 2

BottomTrackVars == {"bt_u", "bt_v", "bt_w", "bt_e", "bt_depth"}

(* C13, as stated: for raw data in beam, xyz or earth coordinates, the load
   returns a dataset with none of bt_u, bt_v, bt_w, bt_e, bt_depth when every
   raw bottom-track sample is 0, and with all five, bt_depth being the mean
   over the beams without the nan, when one is not 0. *)
C13_BottomTrackDropped ==
    (Loaded /\ args.data.coordsystem \in {"beam", "xyz", "earth"}) =>
        /\ exc = "None"
        /\ IF \A t \in Times : \A i \in 1..4 : args.data.bt_vel[t][i] = 0
           THEN BottomTrackVars \cap DOMAIN dataset_vars = {}
           ELSE /\ BottomTrackVars \subseteq DOMAIN dataset_vars
                /\ \A t \in Times :
                      dataset_vars["bt_depth"][t] = nanmean(args.data.bt_depth[t])

(* C14: the dataset a load returns never has pres; for the model "os" it
   has no xducer_depth variable and its transducer-depth attribute is the
   first raw transducer-depth sample; for "wh" and "sv" xducer_depth is the
   raw per-time vector. *)
C14_PressureAndTransducerDepth ==
    Returned =>
        /\ "pres" \notin DOMAIN dataset_vars
        /\ IF args.data.sonar_model = "os"
           THEN /\ "xducer_depth" \notin DOMAIN dataset_vars
                /\ dataset_attrs["_vartmp_XducerDepth"] = args.data.XducerDepth[1]
           ELSE /\ "xducer_depth" \in DOMAIN dataset_vars
                /\ dataset_vars["xducer_depth"] = args.data.XducerDepth

(* An "os" load has returned whose raw transducer depth varies, its first
   sample being neither the median nor the last *)
C14_Witness ==
    /\ Returned
    /\ args.data.sonar_model = "os"
    /\ args.data.XducerDepth[1] # args.data.XducerDepth[NTime]
    /\ dataset_attrs["_vartmp_XducerDepth"] = args.data.XducerDepth[1]
    /\ DOMAIN dataset_vars \cap {"pres", "xducer_depth"} = {}

(* C15, as stated: for a model other than "os", the depth axis of the
   returned dataset is the median transducer depth plus the range-bin depth
   when the orientation is "down", minus it when "up". *)
C15_DepthBelowSurface ==
    (Returned /\ args.data.sonar_model # "os") =>
        \A d \in Depths :
            dataset_vars["depth"][d] =
                IF args.orientation = "down"
                THEN median(args.data.XducerDepth) + args.data.dep[d]
                ELSE median(args.data.XducerDepth) - args.data.dep[d]

(* C16, as stated: with a coordinate system that is none of beam, xyz,
   earth, the load ends with a CoordinateSystemError, returns no dataset and
   has not touched the velocities of the bundle. *)
C16_UnknownCoordinateSystem ==
    (Loaded /\ args.data.coordsystem \notin {"beam", "xyz", "earth"}) =>
        /\ exc = "CoordinateSystemError"
        /\ dataset_vars = <<>>
        /\ locals.data = args.data

(* C17, as stated: for raw data in beam or xyz coordinates whose heading,
   pitch and roll are all 0, the load returns a dataset whose coordsystem
   attribute is "xyz", with a warning logged. *)
C17_StopsAtXyz ==
    (/\ Loaded
     /\ args.data.coordsystem \in {"beam", "xyz"}
     /\ all_zero(args.data.heading)
     /\ all_zero(args.data.pitch)
     /\ all_zero(args.data.roll))
    => /\ exc = "None"
       /\ dataset_attrs["coordsystem"] = "xyz"
       /\ locals.data.coordsystem = "xyz"
       /\ l.w_count >= 1
       /\ \E i \in DOMAIN l.logbook :
             contains(l.logbook[i], "Roll, Pitch or Heading seems to be missing")

----------------------------------------------------------------------------
(* utils.is_valid_filename.  A filename is a directory and the parts of its
   last component: the stem, then the suffixes.  locals holds the filename
   the function is working on and the directories and files that exist; pc
   is the place of the function: at its while, at its if, or done.  The
   operator's answers are the inputs of the steps. *)

Directories == {"here", "new"}

Names == {<<"f">>, <<"f", ".ini">>, <<"f", ".v1">>, <<"f", ".v1", ".ini">>}

Filenames == [dir : Directories, parts : Names]

(* Path(filename).suffix *)
suffix(filename) ==
    IF Len(filename.parts) > 1 THEN filename.parts[Len(filename.parts)] ELSE ""

(* if Path(filename).suffix != ext: filename += ext *)
add_suffix(filename, ext) ==
    IF suffix(filename) # ext THEN [filename EXCEPT !.parts = Append(@, ext)]
    ELSE filename

(* Path(filename).parents[0].is_dir() *)
parent_is_dir(filename, dirs) == filename.dir \in dirs

FilenameInit ==
    /\ \E filename \in Filenames, files \in SUBSET [dir : {"here"}, parts : Names \ {<<"f">>}] :
          /\ args = [filename |-> filename, ext |-> ".ini"]
          /\ locals = [filename |-> filename, dirs |-> {"here"}, files |-> files]
    /\ dataset_vars = <<>> /\ dataset_attrs = <<>> /\ var_attrs = <<>>
    /\ l = <<>> /\ pc = "ready" /\ op = "" /\ exc = "None"

FilenameStep(to, loc) ==
    /\ pc' = to
    /\ locals' = loc
    /\ op' = "is_valid_filename"
    /\ UNCHANGED <<dataset_vars, dataset_attrs, var_attrs, l, args, exc>>

(* The call: the extension is added when it is not the last suffix *)
IsValidFilename ==
    /\ pc = "ready"
    /\ FilenameStep("while",
           [locals EXCEPT !.filename = add_suffix(args.filename, args.ext)])

(* The while ends: the directory is there *)
DirectoryExists ==
    /\ pc = "while"
    /\ parent_is_dir(locals.filename, locals.dirs)
    /\ FilenameStep("if", locals)

(* "Do you want to create it ?" answered yes: mkdir *)
CreateDirectory ==
    /\ pc = "while"
    /\ ~parent_is_dir(locals.filename, locals.dirs)
    /\ FilenameStep("while", [locals EXCEPT !.dirs = @ \cup {locals.filename.dir}])

(* Answered no: filename = ask_for_filename(ext), whatever is typed *)
DeclineDirectory ==
    /\ pc = "while"
    /\ ~parent_is_dir(locals.filename, locals.dirs)
    /\ \E typed \in Filenames :
          FilenameStep("while", [locals EXCEPT !.filename = typed])

(* No file of this name: the filename is returned *)
FileAbsent ==
    /\ pc = "if"
    /\ locals.filename \notin locals.files
    /\ FilenameStep("done", locals)

(* "Overwrite ?" answered yes: the filename is returned *)
Overwrite ==
    /\ pc = "if"
    /\ locals.filename \in locals.files
    /\ FilenameStep("done", locals)

(* Answered no: return is_valid_filename(ask_for_filename(ext), ext) *)
DeclineOverwrite ==
    /\ pc = "if"
    /\ locals.filename \in locals.files
    /\ \E typed \in Filenames :
          FilenameStep("while", [locals EXCEPT !.filename = add_suffix(typed, args.ext)])

FilenameNext ==
    \/ IsValidFilename
    \/ DirectoryExists
    \/ CreateDirectory
    \/ DeclineDirectory
    \/ FileAbsent
    \/ Overwrite
    \/ DeclineOverwrite

FilenameSpec == FilenameInit /\ [][FilenameNext]_vars

(* C18, as stated: whatever the operator answers, the filename that
   is_valid_filename returns has ext as its last suffix. *)
C18_ReturnedFilenameHasExtension ==
    (pc = "done" /\ op = "is_valid_filename") => suffix(locals.filename) = args.ext

----------------------------------------------------------------------------
(* Properties of the list of tests of adcp_quality_control *)

(* The tests with a threshold, in the order of the code: the argument, the
   start of the log line, the start of the quality_test entry, the unit
   after the value, the local that keeps the mask *)
ThresholdTests ==
    <<[th |-> "amp_th", log |-> "amplitude threshold ",
       entry |-> "amplitude_threshold:", unit |-> "", flag |-> "amp_flag"],
      [th |-> "corr_th", log |-> "correlation threshold ",
       entry |-> "correlation_threshold:", unit |-> "", flag |-> "corr_flag"],
      [th |-> "pg_th", log |-> "percentgood threshold ",
       entry |-> "percentgood_threshold:", unit |-> "", flag |-> "pg_flag"],
      [th |-> "horizontal_vel_th", log |-> "horizontal velocity threshold ",
       entry |-> "horizontal_velocity_threshold:", unit |-> " m/s",
       flag |-> "horizontal_vel_flag"],
      [th |-> "vertical_vel_th", log |-> "vertical velocity threshold ",
       entry |-> "vertical_velocity_threshold:", unit |-> " m/s",
       flag |-> "vertical_vel_flag"],
      [th |-> "error_vel_th", log |-> "error velocity threshold ",
       entry |-> "velocity_error_threshold:", unit |-> " m/s",
       flag |-> "error_vel_flag"],
      [th |-> "roll_th", log |-> "roll threshold ",
       entry |-> "roll_threshold:", unit |-> " degree", flag |-> "roll_flag"],
      [th |-> "pitch_th", log |-> "pitch threshold ",
       entry |-> "pitch_threshold:", unit |-> " degree", flag |-> "pitch_flag"]>>

(* msg starts with part *)
starts_with(msg, part) ==
    Len(msg) >= Len(part) /\ SubSeq(msg, 1, Len(part)) = part

(* The entries of the tests i..8 whose threshold is truthy, with the value *)
RECURSIVE EnabledEntries(_)
EnabledEntries(i) ==
    IF i > Len(ThresholdTests) THEN <<>>
    ELSE LET test == ThresholdTests[i]
         IN  (IF args[test.th] # 0
              THEN <<test.entry \o ToString(args[test.th]) \o test.unit>> ELSE <<>>)
             \o EnabledEntries(i + 1)

(* C19: after adcp_quality_control has returned, the quality_test attribute
   of u_QC, v_QC and w_QC is the list of the tests that ran, each threshold
   test with its value, in the order amplitude, correlation, percent good,
   horizontal, vertical and error velocity, roll, pitch, sidelobes,
   pressure; a disabled test and a side-lobe test that gave up are not in
   it. *)
C19_QualityTestListsTestsRun ==
    Completed =>
        \A x \in Velocities :
            var_attrs[x \o "_QC"].quality_test =
                EnabledEntries(1)
                \o (IF args.sidelobes_correction
                       /\ \E c \in Cells : locals.sidelobe_flag[c]
                    THEN <<"sidelobes">> ELSE <<>>)
                \o (IF "pres" \in DOMAIN dataset_vars
                    THEN <<pressure_quality_test>> ELSE <<>>)

(* A returned call with pres in the dataset, one threshold test disabled
   and the tests after it run, and a side-lobe correction that gave up *)
C19_Witness ==
    /\ Completed
    /\ "pres" \in DOMAIN dataset_vars
    /\ args.pg_th = 0 /\ args.roll_th # 0
    /\ Len(var_attrs["u_QC"].quality_test) = Len(ThresholdTests)

(* A returned call where the side-lobe correction was asked and gave up *)
C19_SidelobeGaveUp ==
    Completed /\ args.sidelobes_correction

(* C20: after adcp_quality_control has returned, a threshold test whose
   threshold is falsy has flagged no cell, has no line in the log and no
   entry in quality_test; the flags are those the other tests give: 9 where
   a velocity is not finite, else 4 where the pressure or the side-lobe test
   failed, else 3 where a test with a truthy threshold failed, else 1. *)
C20_FalsyThresholdDisablesTest ==
    Completed =>
        /\ \A i \in DOMAIN ThresholdTests :
              LET test == ThresholdTests[i]
              IN  args[test.th] = 0 =>
                     /\ \A c \in Cells : ~locals[test.flag][c]
                     /\ \A k \in DOMAIN l.logbook : ~starts_with(l.logbook[k], test.log)
                     /\ \A x \in Velocities :
                           \A k \in DOMAIN var_attrs[x \o "_QC"].quality_test :
                              ~starts_with(var_attrs[x \o "_QC"].quality_test[k], test.entry)
        /\ \A c \in Cells :
              Flagged(c,
                  IF NonFinite(c) THEN 9
                  ELSE IF locals.pressure_flags[c[2]] \/ locals.sidelobe_flag[c] THEN 4
                  ELSE IF \E i \in DOMAIN ThresholdTests :
                             /\ args[ThresholdTests[i].th] # 0
                             /\ locals[ThresholdTests[i].flag][c]
                       THEN 3
                  ELSE 1)

(* A returned call with the amplitude test disabled and a cell whose four
   beams are all below the default threshold, holding 1 *)
C20_Witness ==
    /\ Completed
    /\ args.amp_th = 0
    /\ \E c \in Cells : AllBeamsBelow("amp", DefaultArgs.amp_th, c) /\ Flagged(c, 1)

----------------------------------------------------------------------------
(* Properties of set_implausible_vel_to_nan *)

(* u, v or w is not finite or is 15 or more in absolute value at cell c *)
Implausible(c) ==
    \E x \in Velocities :
        \/ ~isfinite(dataset_vars[x][c])
        \/ abs(dataset_vars[x][c]) >= IMPLAUSIBLE_VEL_TRESHOLD

(* C21: set_implausible_vel_to_nan with threshold 15 leaves u, v and w all
   not-a-number at every cell where one of them was not finite or was 15 or
   more in absolute value, and leaves all three as they were at every other
   cell. *)
C21_JointInvalidation ==
    [][(pc = "ready" /\ op' = "set_implausible_vel_to_nan")
       => \A c \in Cells : \A x \in Velocities :
             dataset_vars'[x][c] =
                 IF Implausible(c) THEN NaN ELSE dataset_vars[x][c]]_vars

(* set_implausible_vel_to_nan has returned leaving a cell with u, v and w
   all not-a-number and a cell with all three finite *)
C21_Witness ==
    /\ Ended("set_implausible_vel_to_nan")
    /\ \E c \in Cells : \A x \in Velocities : ~isfinite(dataset_vars[x][c])
    /\ \E c \in Cells : \A x \in Velocities : isfinite(dataset_vars[x][c])

----------------------------------------------------------------------------
(* Properties of the side-lobe test *)

(* The beam angle or the orientation is not in the attributes *)
AttributeMissing == ~({"beam_angle", "orientation"} \subseteq DOMAIN dataset_attrs)

(* The beam angle or the orientation is in the attributes and falsy *)
AttributeFalsy ==
    /\ ~AttributeMissing
    /\ (dataset_attrs["beam_angle"] = 0 \/ dataset_attrs["orientation"] = "")

(* With both attributes truthy, the side-lobe test has no transducer depth,
   or looks down without a bottom depth, or looks neither up nor down *)
CannotResolve ==
    /\ ~AttributeMissing /\ ~AttributeFalsy
    /\ \/ /\ "xducer_depth" \notin DOMAIN dataset_vars
          /\ "xducer_depth" \notin DOMAIN dataset_attrs
       \/ /\ dataset_attrs["orientation"] = "down"
          /\ args.bottom_depth = 0
          /\ "bt_depth" \notin DOMAIN dataset_vars
       \/ dataset_attrs["orientation"] \notin {"up", "down"}

(* The call of adcp_quality_control with the side-lobe correction, on a
   dataset that has its logbook attribute, returns with one more warning,
   no cell caught by the side-lobe test and no "sidelobes" entry *)
AbortsWithWarning ==
    /\ exc' = "None"
    /\ l'.w_count = l.w_count + 1
    /\ \A c \in Cells : ~locals'.sidelobe_flag[c]
    /\ \A x \in Velocities :
          \A k \in DOMAIN var_attrs'[x \o "_QC"].quality_test :
              var_attrs'[x \o "_QC"].quality_test[k] # "sidelobes"

SidelobeCallStarts ==
    /\ pc = "ready" /\ op' = "adcp_quality_control"
    /\ args.sidelobes_correction
    /\ "logbook" \in DOMAIN dataset_attrs

(* C22, as stated: when the side-lobe correction is asked and the test
   cannot run (beam angle or orientation missing or falsy, no transducer
   depth, looking down without a bottom depth, or an orientation other than
   up and down), adcp_quality_control returns, with a warning logged, no
   cell flagged by the side-lobe test and "sidelobes" not listed. *)
C22_SidelobeAbortsWithWarning ==
    [][(SidelobeCallStarts /\ (AttributeMissing \/ AttributeFalsy \/ CannotResolve))
       => AbortsWithWarning]_vars

(* The part of C22 with both attributes truthy: no transducer depth, no
   bottom depth looking down, or another orientation *)
C22_UnresolvedAbortsWithWarning ==
    [][(SidelobeCallStarts /\ CannotResolve) => AbortsWithWarning]_vars

(* The transducer depth at each time, from the attribute *)
FromAttribute == full1d(dataset_attrs["xducer_depth"])

(* The transducer depth at each time, from the variable *)
FromVariable == dataset_vars["xducer_depth"]

(* The cells the side-lobe test catches with the transducer depth series
   xd: looking down, those below xd + (bottom - xd) * cos(beam_angle);
   looking up, those above xd * (1 - cos(beam_angle)) *)
Contaminated(xd) ==
    LET cos_angle == cos_angle_e4(dataset_attrs["beam_angle"])
        bottom == IF args.bottom_depth # 0 THEN full1d(args.bottom_depth)
                  ELSE dataset_vars["bt_depth"]
    IN  [c \in Cells |->
            IF dataset_attrs["orientation"] = "down"
            THEN /\ isfinite(xd[c[2]]) /\ isfinite(bottom[c[2]])
                 /\ depth[c[1]] * 10000 >
                      xd[c[2]] * 10000 + (bottom[c[2]] - xd[c[2]]) * cos_angle
            ELSE /\ isfinite(xd[c[2]])
                 /\ depth[c[1]] * 10000 < xd[c[2]] * (10000 - cos_angle)]

(* The call of adcp_quality_control with the side-lobe correction on a
   dataset the side-lobe test can work on *)
SidelobeTestRuns ==
    /\ pc = "ready" /\ op' = "adcp_quality_control"
    /\ args.sidelobes_correction
    /\ ~AttributeMissing /\ ~AttributeFalsy /\ ~CannotResolve

(* C23, as stated: the side-lobe test works with the xducer_depth variable
   whenever the dataset has one, and with the attribute only when the
   variable is absent. *)
C23_VariablePreferred ==
    [][SidelobeTestRuns
       => locals'.sidelobe_flag =
            Contaminated(IF "xducer_depth" \in DOMAIN dataset_vars
                         THEN FromVariable ELSE FromAttribute)]_vars

(* C23, amended: the side-lobe test works with the xducer_depth attribute
   whenever the attributes have one, and with the xducer_depth variable
   only when the attribute is absent. *)
C23_AttributePreferred ==
    [][SidelobeTestRuns
       => locals'.sidelobe_flag =
            Contaminated(IF "xducer_depth" \in DOMAIN dataset_attrs
                         THEN FromAttribute ELSE FromVariable)]_vars

(* The side-lobe test has worked on a dataset with both the variable and
   the attribute, which differ at a time sample where the test caught a
   cell that the variable would not have caught *)
C23_Witness ==
    /\ Ended("adcp_quality_control")
    /\ args.sidelobes_correction
    /\ "xducer_depth" \in DOMAIN dataset_vars
    /\ "xducer_depth" \in DOMAIN dataset_attrs
    /\ \E c \in Cells :
          /\ locals.sidelobe_flag[c]
          /\ ~Contaminated(FromVariable)[c]

----------------------------------------------------------------------------
(* Properties of the temperature test *)

(* Temperature series to compare with: in range and out of range at every
   time sample *)
OtherTemperatures == {full1d(0), full1d(MAX_TEMPERATURE + 1)}

(* The frame adcp_quality_control ends with on the dataset of this state
   with the temperature series temperature, the velocity tests reading at
   the cells without velocity what they read in the call just made *)
WithTemperature(temperature) ==
    qc_rest(qc_start([Frame EXCEPT !.vars = setitem(@, "temperature", temperature)],
                     args),
            args, locals'.horizontal_vel_flag, locals'.vertical_vel_flag,
            locals'.error_vel_flag)

(* C24: a call of adcp_quality_control that returns on a dataset with a
   temperature variable writes temperature_QC with 4 at the time samples
   whose temperature is above 32 or below -2 and 1 at the others, and writes
   the u_QC, v_QC and w_QC it writes for the same dataset with any other
   temperature series. *)
C24_TemperatureAnnotatedOnly ==
    [][(/\ pc = "ready" /\ op' = "adcp_quality_control" /\ exc' = "None"
        /\ "temperature" \in DOMAIN dataset_vars)
       => /\ \A t \in Times :
                dataset_vars'["temperature_QC"][t] =
                    IF /\ isfinite(dataset_vars["temperature"][t])
                       /\ \/ dataset_vars["temperature"][t] > MAX_TEMPERATURE
                          \/ dataset_vars["temperature"][t] < MIN_TEMPERATURE
                    THEN 4 ELSE 1
          /\ \A temperature \in OtherTemperatures :
                \E g \in {WithTemperature(temperature)} :
                    /\ g.exc = "None"
                    /\ \A x \in Velocities :
                          g.vars[x \o "_QC"] = dataset_vars'[x \o "_QC"]]_vars

(* A returned call with a temperature out of range at a time sample, 4 in
   temperature_QC there and 1 in the velocity flags of a cell of that time
   sample *)
C24_Witness ==
    /\ Completed
    /\ "temperature" \in DOMAIN dataset_vars
    /\ \E c \in Cells :
          /\ gt(dataset_vars["temperature"][c[2]], MAX_TEMPERATURE)
          /\ dataset_vars["temperature_QC"][c[2]] = 4
          /\ Flagged(c, 1)

----------------------------------------------------------------------------
(* Properties of the velocity flag grid *)

(* A test that flags 3 and has a truthy threshold fails at cell c, on the
   values of the dataset for the tests on cell values, on the mask kept by
   the call for the roll and pitch tests *)
FailsThree(c) ==
    \/ args.amp_th # 0 /\ AllBeamsBelow("amp", args.amp_th, c)
    \/ args.corr_th # 0 /\ AllBeamsBelow("corr", args.corr_th, c)
    \/ args.pg_th # 0 /\ lt(dataset_vars["pg"][c], args.pg_th)
    \/ /\ args.horizontal_vel_th # 0
       /\ isfinite(dataset_vars["u"][c]) /\ isfinite(dataset_vars["v"][c])
       /\ dataset_vars["u"][c] * dataset_vars["u"][c]
          + dataset_vars["v"][c] * dataset_vars["v"][c]
          > args.horizontal_vel_th * args.horizontal_vel_th
    \/ /\ args.vertical_vel_th # 0
       /\ gt(abs(dataset_vars["w"][c]), args.vertical_vel_th)
    \/ /\ args.error_vel_th # 0 /\ isfinite(dataset_vars["w"][c])
       /\ gt(abs(dataset_vars["e"][c]), args.error_vel_th)
    \/ args.roll_th # 0 /\ locals.roll_flag[c]
    \/ args.pitch_th # 0 /\ locals.pitch_flag[c]

(* The pressure rule or the side-lobe rule fails at cell c *)
FailsFour(c) ==
    \/ "pres" \in DOMAIN dataset_vars /\ PressureOut(c[2])
    \/ args.sidelobes_correction /\ locals.sidelobe_flag[c]

(* C25: after adcp_quality_control has returned, u_QC, v_QC and w_QC are
   equal cell for cell and every cell holds 9 if u, v or w is not finite
   there, else 4 if the pressure or the side-lobe rule failed there, else 3
   if a test with a truthy threshold failed there, else 1: no other value,
   1 only on a finite cell no test failed on, and a 4 never back to 3 or 1. *)
C25_FlagPrecedence ==
    Completed =>
        \A c \in Cells :
            /\ dataset_vars["u_QC"][c] = dataset_vars["v_QC"][c]
            /\ dataset_vars["v_QC"][c] = dataset_vars["w_QC"][c]
            /\ dataset_vars["u_QC"][c] \in {1, 3, 4, 9}
            /\ dataset_vars["u_QC"][c] =
                   IF NonFinite(c) THEN 9
                   ELSE IF FailsFour(c) THEN 4
                   ELSE IF FailsThree(c) THEN 3
                   ELSE 1

(* A returned call with a cell that failed a test flagging 3 and the
   pressure rule, and holds 4 *)
C25_Witness ==
    /\ Completed
    /\ \E c \in Cells : ~NonFinite(c) /\ FailsThree(c) /\ FailsFour(c) /\ Flagged(c, 4)
====
